---------------------------- MODULE Spec2Model ----------------------------
(***************************************************************************)
(* Verification model of the GameBuild SDK command line client.            *)
(*                                                                         *)
(* Part 1: the config store (src/src/services/config.ts) and the config    *)
(*         commands (ConfigCommand, src/src/commands/deploy.ts:325-575).    *)
(* Part 2: command dispatch, command handlers, the service layer's HTTP     *)
(*         calls and the process's exit (cli.ts, commands/*.ts, services).  *)
(*                                                                         *)
(* Strings are sequences of one-character strings, so that split, join,    *)
(* toLowerCase, includes, Number and JSON.parse are computed.               *)
(***************************************************************************)
EXTENDS Integers, Sequences, FiniteSets, TLC

VARIABLES
    config,           \* ConfigService.config: own properties of the config object tree
    objectPrototype,  \* own properties of Object.prototype in this process
    arrayPrototype,   \* own properties of Array.prototype in this process
    file,             \* ~/.gamebuild/config.json as last written by save()
    lastOp,           \* the last ConfigService / ConfigCommand call and what it returned
    out,              \* what the last config command printed about values
    nOps,             \* number of calls made so far (bounded by MaxOps)
    marker,           \* .gamebuild.json in the working directory: absent, invalid or JSON
    argv,             \* the command line the process was started with
    handler,          \* the command commander dispatched to
    pc,               \* start, alive (timers or watchers pending), returned (event loop
                      \* drained), exited (process.exit was called)
    exitCode,         \* the process's exit code once pc is returned or exited
    requests,         \* the HTTP requests issued so far, in order
    printed,          \* the messages printed so far, in order
    thrown,           \* the error the last failing service method threw
    failure,          \* the step of a service method that failed last
    timer,            \* the pending setTimeout callback
    watching,         \* fs.watch watchers are installed
    ticks,            \* timer callbacks run so far (bounded by MaxTicks)
    now,              \* milliseconds since the process started
    timers,           \* the pending setTimeout callbacks, each with the time it is due
    polls,            \* the runs of the loop callbacks, each with the times it started
                      \* and ended (-1 while its requests are in flight)
    events,           \* the times of the fs.watch events so far
    procs,            \* concurrent CLI processes: each one's in-memory config since
                      \* its load, and the set() calls it has made
    saved,            \* the processes that have called save(), in the order of the calls
    customFile,       \* the file at <path> of the global option --config <path>
    options,          \* the options commander parsed from the command line
    asked,            \* the inquirer prompts shown so far, each with its answer
    wire,             \* what the handler's request carried: the base URL it went to,
                      \* the decimals of its body, the names of its body's fields
    serverLog,        \* the server's log of the build or deployment being followed
    status,           \* the server's status of that build or deployment
    logs,             \* followLogs: the log text the last getLogs returned
    lastLogLength,    \* followLogs: lastLogLength
    chunks,           \* the chunks pollLogs wrote with process.stdout.write, in order
    awaiting,         \* the request pollLogs awaits: getLogs, getStatus or none
    seen              \* the status pollLogs read last, "" before the first read

cfgVars == <<config, objectPrototype, arrayPrototype, file, lastOp, out, nOps>>
cliVars == <<marker, argv, handler, pc, exitCode, requests, printed, thrown, failure,
             timer, watching, ticks>>
loopVars == <<now, timers, polls, events>>
followVars == <<serverLog, status, logs, lastLogLength, chunks, awaiting, seen>>
otherVars == <<procs, saved, customFile, options, asked, wire, followVars>>
envVars == <<loopVars, otherVars>>
vars == <<cfgVars, cliVars, envVars>>

-----------------------------------------------------------------------------
(* Bounds                                                                  *)

\* ConfigService calls made on one instance
MaxOps == 2
\* config commands run one after the other, each in its own process
MaxCmds == 1
\* steps of the service methods one handler calls, counted to place a failure
MaxSteps == 3
\* timer callbacks run in one process
MaxTicks == 2
\* the time a process is followed for, in milliseconds
MaxTime == 6000
\* fs.watch events in one process
MaxEvents == 3
\* the longest a callback waits for the answers to its requests, in milliseconds
MaxLatency == 1000
\* characters the server logs for one build or deployment
MaxLog == 3

-----------------------------------------------------------------------------
(* Strings                                                                 *)

S_a           == <<"a">>
S_b           == <<"b">>
S_auth        == <<"a","u","t","h">>
S_token       == <<"t","o","k","e","n">>
S_proto       == <<"_","_","p","r","o","t","o","_","_">>
S_constructor == <<"c","o","n","s","t","r","u","c","t","o","r">>
Dot           == "."

\* a.b, auth.token, ... as the user types them
Dotted(p, q) == p \o <<Dot>> \o q

\* String.prototype.split('.')
RECURSIVE SplitFrom(_, _, _)
SplitFrom(str, i, acc) ==
    IF i > Len(str) THEN <<acc>>
    ELSE IF str[i] = Dot THEN <<acc>> \o SplitFrom(str, i + 1, <<>>)
    ELSE SplitFrom(str, i + 1, Append(acc, str[i]))

split(str) == SplitFrom(str, 1, <<>>)

-----------------------------------------------------------------------------
(* JavaScript values.  One record shape for every value so that any two    *)
(* values can be compared: t is the type tag, s the text of a string (or   *)
(* the canonical text of a parsed array), n the number / boolean.          *)

Val(t, s, n) == [t |-> t, s |-> s, n |-> n, x |-> 0]

\* a number n * 10^x with n not divisible by 10 (0 is 0 * 10^0); nan for NaN
RECURSIVE Normal(_, _)
Normal(m, x) ==
    IF m = 0 THEN [nan |-> FALSE, m |-> 0, x |-> 0]
    ELSE IF m % 10 = 0 THEN Normal(m \div 10, x + 1)
    ELSE [nan |-> FALSE, m |-> m, x |-> x]

NaN == [nan |-> TRUE, m |-> 0, x |-> 0]

Undefined  == Val("undefined", <<>>, 0)
NullV      == Val("null", <<>>, 0)
StrV(s)    == Val("string", s, 0)
NumberV(num) == [t |-> "number", s |-> <<>>, n |-> num.m, x |-> num.x]
NumV(n)    == NumberV(Normal(n, 0))
BoolV(b)   == Val("boolean", <<>>, IF b THEN 1 ELSE 0)
ObjV       == Val("object", <<>>, 0)       \* a plain object; its properties are tree entries below it
ArrV(s)    == Val("array", s, 0)           \* an array, s its JSON text without white space
FnV        == Val("function", <<>>, 0)     \* a built-in constructor function
AccessorV  == Val("accessor", <<>>, 0)     \* the __proto__ getter/setter pair of Object.prototype

\* ToBoolean
Truthy(v) ==
    CASE v.t \in {"undefined", "null"} -> FALSE
      [] v.t = "boolean" -> v.n = 1
      [] v.t = "number"  -> v.n # 0
      [] v.t = "string"  -> v.s # <<>>
      [] OTHER -> TRUE

\* typeof v === 'object'
TypeofObject(v) == v.t \in {"object", "array", "null"}

-----------------------------------------------------------------------------
(* The object heap.  A tree maps the path of every own property below a    *)
(* root object to its value; an object-valued property has its own         *)
(* properties at longer paths.  The three roots are the config object,     *)
(* Object.prototype and Array.prototype.                                   *)

Ref(root, path) == [root |-> root, path |-> path]
NoRef        == Ref("none", <<>>)
ConfigRef    == Ref("config", <<>>)
ObjProtoRef  == Ref("objProto", <<>>)
ArrProtoRef  == Ref("arrProto", <<>>)

\* a value as a handler holds it: the value and, for an object, where it lives
JS(v, at) == [v |-> v, at |-> at]
JSUndefined == JS(Undefined, NoRef)

EmptyTree == [p \in {} |-> Undefined]

\* Object.prototype and Array.prototype as a fresh process has them
FreshObjectPrototype ==
    [p \in {<<S_constructor>>, <<S_proto>>} |->
        IF p = <<S_proto>> THEN AccessorV ELSE FnV]
FreshArrayPrototype == [p \in {<<S_constructor>>} |-> FnV]

IsPrefix(p, q) == Len(p) <= Len(q) /\ SubSeq(q, 1, Len(p)) = p

\* the tree without the property at p and everything below it
Without(tree, p) ==
    [q \in {x \in DOMAIN tree : ~IsPrefix(p, x)} |-> tree[q]]

\* the tree with the property at p replaced by the fresh value v
With(tree, p, v) ==
    LET rest == Without(tree, p)
    IN [q \in DOMAIN rest \cup {p} |-> IF q = p THEN v ELSE rest[q]]

ValAt(h, r) == IF r.path = <<>> THEN ObjV ELSE h[r.root][r.path]

\* [[GetPrototypeOf]]
ProtoOf(h, r) ==
    IF r.path = <<>>
    THEN CASE r.root = "config"   -> ObjProtoRef
           [] r.root = "arrProto" -> ObjProtoRef
           [] OTHER               -> NoRef
    ELSE IF ValAt(h, r).t = "array" THEN ArrProtoRef ELSE ObjProtoRef

OwnHas(h, r, k) == Append(r.path, k) \in DOMAIN h[r.root]

\* the first object on r's prototype chain with an own property k
RECURSIVE Owner(_, _, _)
Owner(h, r, k) ==
    IF r = NoRef THEN NoRef
    ELSE IF OwnHas(h, r, k) THEN r
    ELSE Owner(h, ProtoOf(h, r), k)

\* k in r
JSHas(h, r, k) == Owner(h, r, k) # NoRef

\* r[k]
JSGet(h, r, k) ==
    LET o == Owner(h, r, k)
    IN IF o = NoRef THEN JSUndefined
       ELSE LET p == Append(o.path, k)
                v == h[o.root][p]
            IN IF v.t = "accessor"
               THEN LET pr == ProtoOf(h, r)
                    IN IF pr = NoRef THEN JS(NullV, NoRef) ELSE JS(ValAt(h, pr), pr)
               ELSE IF v.t \in {"object", "array"} THEN JS(v, Ref(o.root, p))
               ELSE JS(v, NoRef)

HeapWith(h, root, tree) == [h EXCEPT ![root] = tree]

Outcome(h, threw, protoSet) == [h |-> h, threw |-> threw, protoSet |-> protoSet]

\* r[k] = v in strict mode.  protoSet: the assignment replaced r's prototype by the
\* object v (the __proto__ setter given an object), which this heap does not record.
JSSet(h, r, k, v) ==
    LET o == Owner(h, r, k)
    IN IF o # NoRef /\ h[o.root][Append(o.path, k)].t = "accessor"
       THEN IF v.t \notin {"object", "array", "null"} THEN Outcome(h, FALSE, FALSE)
            ELSE IF r = ObjProtoRef
                 THEN Outcome(h, v.t # "null", FALSE)   \* immutable prototype: TypeError
                 ELSE Outcome(h, FALSE, TRUE)
       ELSE Outcome(HeapWith(h, r.root, With(h[r.root], Append(r.path, k), v)), FALSE, FALSE)

\* delete r[k]
JSDelete(h, r, k) == HeapWith(h, r.root, Without(h[r.root], Append(r.path, k)))


-----------------------------------------------------------------------------
(* ConfigService                                                           *)

\* the three trees of the running process as one heap
Heap == [config |-> config, objProto |-> objectPrototype, arrProto |-> arrayPrototype]

\* ConfigService.get: the loop over the key's segments
RECURSIVE GetWalk(_, _, _, _)
GetWalk(h, value, keys, i) ==
    IF i > Len(keys) THEN value
    ELSE IF Truthy(value.v) /\ TypeofObject(value.v) /\ JSHas(h, value.at, keys[i])
         THEN GetWalk(h, JSGet(h, value.at, keys[i]), keys, i + 1)
         ELSE JSUndefined

get(h, key) == GetWalk(h, JS(ObjV, ConfigRef), split(key), 1)

\* ConfigService.set: the loop over the intermediate segments, then the assignment
RECURSIVE SetWalk(_, _, _, _, _)
SetWalk(h, current, keys, i, value) ==
    IF i > Len(keys) - 1 THEN JSSet(h, current, keys[Len(keys)], value)
    ELSE LET k    == keys[i]
             cur  == JSGet(h, current, k)
             made == IF ~Truthy(cur.v) \/ ~TypeofObject(cur.v)
                     THEN JSSet(h, current, k, ObjV)
                     ELSE Outcome(h, FALSE, FALSE)
             next == JSGet(made.h, current, k)
         IN IF made.threw \/ made.protoSet THEN made
            ELSE IF next.at = NoRef THEN Outcome(made.h, TRUE, FALSE)
            ELSE SetWalk(made.h, next.at, keys, i + 1, value)

set(h, key, value) == SetWalk(h, ConfigRef, split(key), 1, value)

\* ConfigService.delete
RECURSIVE DeleteWalk(_, _, _, _)
DeleteWalk(h, current, keys, i) ==
    IF i > Len(keys) - 1 THEN JSDelete(h, current, keys[Len(keys)])
    ELSE LET cur == JSGet(h, current, keys[i])
         IN IF ~Truthy(cur.v) \/ ~TypeofObject(cur.v) THEN h
            ELSE DeleteWalk(h, cur.at, keys, i + 1)

delete(h, key) == DeleteWalk(h, ConfigRef, split(key), 1)

\* JSON.stringify(this.config): own properties, without undefined and function
\* values and without the named properties of arrays
Stringify(tree) ==
    [p \in {q \in DOMAIN tree :
              /\ tree[q].t \notin {"undefined", "function", "accessor"}
              /\ \A j \in 1..(Len(q) - 1) : tree[SubSeq(q, 1, j)].t = "object"}
       |-> tree[p]]

\* ConfigService.load of the file's text: JSON.parse
Parse(fileTree) == fileTree

\* ConfigService.clear
clear(h) == HeapWith(h, "config", EmptyTree)

\* the record of a call: the operation, its key, the value it was given (for a
\* config command: arg is the value argument as typed), what it returned, whether it threw
Op(op, key, arg, value, result, threw) ==
    [op |-> op, key |-> key, arg |-> arg, value |-> value, result |-> result, threw |-> threw]

NoOp == Op("none", <<>>, <<>>, Undefined, JSUndefined, FALSE)

-----------------------------------------------------------------------------
(* String functions of the value coercion in ConfigCommand.set.  The value *)
(* strings of the model are over letters, digits, space, sign, point,      *)
(* braces and brackets; exponents have at most two digits.                 *)

UpperCase == [c \in {"T", "R", "U", "E", "F", "A", "L", "S"} |->
                CASE c = "T" -> "t" [] c = "R" -> "r" [] c = "U" -> "u"
                  [] c = "E" -> "e" [] c = "F" -> "f" [] c = "A" -> "a"
                  [] c = "L" -> "l" [] c = "S" -> "s"]

\* String.prototype.toLowerCase
toLowerCase(s) == [i \in 1..Len(s) |-> IF s[i] \in DOMAIN UpperCase THEN UpperCase[s[i]] ELSE s[i]]

\* String.prototype.startsWith
startsWith(s, prefix) == Len(s) >= Len(prefix) /\ SubSeq(s, 1, Len(prefix)) = prefix

DigitValue == [c \in {"0", "1", "2", "3", "4", "5", "6", "7", "8", "9"} |->
                 CASE c = "0" -> 0 [] c = "1" -> 1 [] c = "2" -> 2 [] c = "3" -> 3
                   [] c = "4" -> 4 [] c = "5" -> 5 [] c = "6" -> 6 [] c = "7" -> 7
                   [] c = "8" -> 8 [] c = "9" -> 9]

IsDigit(c) == c \in DOMAIN DigitValue
AllDigits(s) == \A i \in 1..Len(s) : IsDigit(s[i])

RECURSIVE DigitsValue(_)
DigitsValue(s) ==
    IF s = <<>> THEN 0
    ELSE 10 * DigitsValue(SubSeq(s, 1, Len(s) - 1)) + DigitValue[s[Len(s)]]

\* StrWhiteSpace of the StringToNumber grammar and JSON's ws
IsWhiteSpace(c) == c = " "

RECURSIVE TrimLeft(_)
TrimLeft(s) == IF s # <<>> /\ IsWhiteSpace(s[1]) THEN TrimLeft(Tail(s)) ELSE s

RECURSIVE TrimRight(_)
TrimRight(s) ==
    IF s # <<>> /\ IsWhiteSpace(s[Len(s)]) THEN TrimRight(SubSeq(s, 1, Len(s) - 1)) ELSE s

Trim(s) == TrimRight(TrimLeft(s))

\* index of the first c in s, 0 when there is none
RECURSIVE IndexFrom(_, _, _)
IndexFrom(s, cs, i) ==
    IF i > Len(s) THEN 0 ELSE IF s[i] \in cs THEN i ELSE IndexFrom(s, cs, i + 1)

IndexOf(s, cs) == IndexFrom(s, cs, 1)

HasSign(s) == s # <<>> /\ s[1] \in {"+", "-"}
Unsigned(s) == IF HasSign(s) THEN Tail(s) ELSE s
SignOf(s) == IF s # <<>> /\ s[1] = "-" THEN -1 ELSE 1

\* StrDecimalLiteral: digits, an optional fraction, an optional exponent
DecimalLiteral(body, allowBarePoint) ==
    LET e     == IndexOf(body, {"e", "E"})
        mant  == IF e = 0 THEN body ELSE SubSeq(body, 1, e - 1)
        expo  == IF e = 0 THEN <<>> ELSE SubSeq(body, e + 1, Len(body))
        dot   == IndexOf(mant, {"."})
        int   == IF dot = 0 THEN mant ELSE SubSeq(mant, 1, dot - 1)
        frac  == IF dot = 0 THEN <<>> ELSE SubSeq(mant, dot + 1, Len(mant))
        expOk == e = 0 \/ (Unsigned(expo) # <<>> /\ AllDigits(Unsigned(expo)))
        manOk == /\ AllDigits(int) /\ AllDigits(frac)
                 /\ int \o frac # <<>>
                 /\ (allowBarePoint \/ int # <<>>)
                 /\ (allowBarePoint \/ dot = 0 \/ frac # <<>>)
        expV  == IF e = 0 THEN 0 ELSE SignOf(expo) * DigitsValue(Unsigned(expo))
    IN IF manOk /\ expOk
       THEN Normal(DigitsValue(int \o frac), expV - Len(frac))
       ELSE NaN

\* the end of the longest run of decimal digits from i
RECURSIVE DigitRunEnd(_, _)
DigitRunEnd(s, i) == IF i <= Len(s) /\ IsDigit(s[i]) THEN DigitRunEnd(s, i + 1) ELSE i

\* parseInt(string) of an unsigned text without leading white space: the
\* integer of its longest prefix of decimal digits, NaN when it has none
parseInt(s) ==
    LET e == DigitRunEnd(s, 1)
    IN IF e = 1 THEN NaN ELSE Normal(DigitsValue(SubSeq(s, 1, e - 1)), 0)

\* a || b on numbers: b when a is 0 or NaN
OrElse(a, b) == IF a.nan \/ a.m = 0 THEN b ELSE a

\* Number(value): StringToNumber
Number(s) ==
    LET body == Trim(s)
    IN IF body = <<>> THEN Normal(0, 0)
       ELSE LET d == DecimalLiteral(Unsigned(body), TRUE)
            IN IF d.nan THEN NaN ELSE Normal(SignOf(body) * d.m, d.x)

\* JSON.parse accepts the text: over this alphabet a JSON value is {} , an array
\* of at most one value, true, false or a number
RECURSIVE SkipWs(_, _)
SkipWs(s, i) == IF i <= Len(s) /\ IsWhiteSpace(s[i]) THEN SkipWs(s, i + 1) ELSE i

At(s, i) == IF i <= Len(s) THEN s[i] ELSE "EOF"

\* the end of the longest run of number characters from i
RECURSIVE NumberRunEnd(_, _)
NumberRunEnd(s, i) ==
    IF i <= Len(s) /\ (IsDigit(s[i]) \/ s[i] \in {"+", "-", ".", "e", "E"})
    THEN NumberRunEnd(s, i + 1) ELSE i

\* a JSON number: no leading +, no leading zeros, digits on both sides of the point
JsonNumber(lit) ==
    LET body == IF lit # <<>> /\ lit[1] = "-" THEN Tail(lit) ELSE lit
        int  == SubSeq(body, 1, (IF IndexOf(body, {".", "e", "E"}) = 0
                                 THEN Len(body) ELSE IndexOf(body, {".", "e", "E"}) - 1))
    IN /\ body # <<>> /\ IsDigit(body[1])
       /\ (Len(int) > 1 => int[1] # "0")
       /\ ~DecimalLiteral(body, FALSE).nan

\* index after the JSON value that starts at i, 0 when there is none
RECURSIVE JsonValueEnd(_, _)
JsonValueEnd(s, i) ==
    CASE At(s, i) = "{" ->
           IF At(s, SkipWs(s, i + 1)) = "}" THEN SkipWs(s, i + 1) + 1 ELSE 0
      [] At(s, i) = "[" ->
           LET j == SkipWs(s, i + 1)
           IN IF At(s, j) = "]" THEN j + 1
              ELSE LET e == JsonValueEnd(s, j)
                   IN IF e # 0 /\ At(s, SkipWs(s, e)) = "]" THEN SkipWs(s, e) + 1 ELSE 0
      [] startsWith(SubSeq(s, i, Len(s)), <<"t", "r", "u", "e">>) -> i + 4
      [] startsWith(SubSeq(s, i, Len(s)), <<"f", "a", "l", "s", "e">>) -> i + 5
      [] OTHER ->
           LET e == NumberRunEnd(s, i)
           IN IF JsonNumber(SubSeq(s, i, e - 1)) THEN e ELSE 0

IsJson(s) ==
    LET e == JsonValueEnd(s, SkipWs(s, 1))
    IN e # 0 /\ SkipWs(s, e) = Len(s) + 1

StripWs(s) == SelectSeq(s, LAMBDA c : ~IsWhiteSpace(c))

\* JSON.parse of a text that starts with { or [
JsonParse(s) == IF s[1] = "{" THEN ObjV ELSE ArrV(StripWs(s))

\* ConfigCommand.set: the coercion of the value argument
parsedValue(value) ==
    IF toLowerCase(value) = <<"t", "r", "u", "e">> THEN BoolV(TRUE)
    ELSE IF toLowerCase(value) = <<"f", "a", "l", "s", "e">> THEN BoolV(FALSE)
    ELSE IF ~Number(value).nan THEN NumberV(Number(value))
    ELSE IF startsWith(value, <<"{">>) \/ startsWith(value, <<"[">>)
         THEN IF IsJson(value) THEN JsonParse(value) ELSE StrV(value)
    ELSE StrV(value)

-----------------------------------------------------------------------------
(* ConfigCommand: what the config commands print                           *)

\* String.prototype.includes
includes(s, sub) ==
    \E i \in 1..(Len(s) - Len(sub) + 1) : SubSeq(s, i, i + Len(sub) - 1) = sub

sensitiveKeys ==
    { <<"t","o","k","e","n">>, <<"p","a","s","s","w","o","r","d">>,
      <<"s","e","c","r","e","t">>, <<"k","e","y">>, <<"a","p","i","K","e","y">> }

Stars    == <<"*", "*", "*">>
Ellipsis == <<".", ".", ".">>

\* ConfigCommand.maskSensitiveValue
maskSensitiveValue(key, value) ==
    IF value.t = "string" /\ \E sk \in sensitiveKeys : includes(toLowerCase(key), sk)
    THEN IF Len(value.s) > 8
         THEN StrV(SubSeq(value.s, 1, 4) \o Ellipsis \o SubSeq(value.s, Len(value.s) - 3, Len(value.s)))
         ELSE StrV(Stars)
    ELSE value

\* `${prefix}.${key}` over a path
RECURSIVE Join(_)
Join(path) ==
    IF Len(path) = 1 THEN path[1]
    ELSE Join(SubSeq(path, 1, Len(path) - 1)) \o <<Dot>> \o path[Len(path)]

\* the paths below `at` that JSON.stringify and Object.entries reach: every
\* ancestor below `at` is a plain object
Reached(tree, at) ==
    {p \in DOMAIN tree :
        /\ IsPrefix(at, p) /\ p # at
        /\ \A j \in (Len(at) + 1)..(Len(p) - 1) : tree[SubSeq(p, 1, j)].t = "object"}

\* a printed line: the command, the dotted key, the stored value and the value shown
Line(via, key, raw, shown) == [via |-> via, key |-> key, raw |-> raw, shown |-> shown]

\* ConfigCommand.printConfigObject(config): one line per leaf
printConfigObject(tree) ==
    { Line("list", Join(p), tree[p], maskSensitiveValue(Join(p), tree[p])) :
        p \in {q \in Reached(tree, <<>>) : tree[q].t # "object"} }

\* values JSON.stringify leaves out of an object
Printable(v) == v.t \notin {"undefined", "function", "accessor"}

\* JSON.stringify(value, null, 2) of the value `res`: one line per leaf it prints
StringifyLines(via, h, key, res) ==
    IF res.v.t = "object"
    THEN LET tree == h[res.at.root]
             at   == res.at.path
         IN { Line(via, key \o <<Dot>> \o Join(SubSeq(p, Len(at) + 1, Len(p))), tree[p], tree[p]) :
                p \in {q \in Reached(tree, at) : tree[q].t # "object" /\ Printable(tree[q])} }
    ELSE { Line(via, key, res.v, res.v) }

\* JSON.stringify(config, null, 2) of `config list --format json`
StringifyConfig(tree) ==
    { Line("list json", Join(p), tree[p], tree[p]) :
        p \in {q \in Reached(tree, <<>>) : tree[q].t # "object" /\ Printable(tree[q])} }

-----------------------------------------------------------------------------
(* Inputs of the config model                                              *)

KeyStrings ==
    { S_a, Dotted(S_a, S_b), Dotted(S_auth, S_token),
      S_constructor, S_proto, Dotted(S_proto, S_b) }

LongSecret == <<"h","i","s","h","i","s","h","i","s","h">>

\* values a caller hands to ConfigService.set
SetValues == { StrV(<<"h","i">>), NumV(0), ObjV, ArrV(<<"[","]">>) }

\* value arguments of `config set <key> <value>`
ValueStrings ==
    { <<>>, <<" ">>, <<"t","r","u","e">>, <<"T","R","U","E">>, <<"f","a","l","s","e">>,
      <<"4","2">>, <<" ","4","2">>, <<"-","4",".","5">>, <<"1","e","2">>, <<"4","e">>,
      <<"h","i">>, LongSecret,
      <<"{","}">>, <<"[","4","]">>, <<"[","t","r","u","e","]">>, <<"{","4">>, <<"[","0","4","]">> }

Tree1 == [p \in {<<S_a>>, <<S_auth>>, <<S_auth, S_token>>} |->
            IF p = <<S_a>> THEN StrV(<<"h","i">>)
            ELSE IF p = <<S_auth>> THEN ObjV ELSE StrV(LongSecret)]
Tree2 == [p \in {<<S_a>>, <<S_a, S_b>>} |-> IF p = <<S_a>> THEN ObjV ELSE NumV(5)]

\* config files a previous run can have written
InitFiles == { EmptyTree, Tree1, Tree2 }

-----------------------------------------------------------------------------
(* The service layer: what a service method does with a failing step       *)

\* an Error as the handler sees it: wrapped is "a new Error built by the
\* method's catch clause", carries is what its message ends with: the message
\* of the response body, the message of the underlying error, or nothing
Error(wrapped, carries) == [wrapped |-> wrapped, carries |-> carries]
NoError == Error(FALSE, "none")

\* a step of a service method: an HTTP request or a local step (file system,
\* IPFS, stream), inside or outside the method's try block
Step(kind, inTry) == [kind |-> kind, inTry |-> inTry]
Method(steps, catch) == [steps |-> steps, catch |-> catch]

\* the shape of all but a few service methods:
\*   try { await client.x(...) } catch (error) {
\*     throw new Error(`Failed to ...: ${error.response?.data?.message || error.message}`) }
Request == Method(<<Step("http", TRUE)>>, "bodyOrMessage")

\* AuthService.validateToken: axios.get in a try whose catch returns false
validateToken == Method(<<Step("http", TRUE)>>, "false")

\* AuthService.getUserInfo: the catch wraps error.message only
getUserInfo == Method(<<Step("http", TRUE)>>, "message")

\* BuildService.startBuild: uploadProject (local, throws when there are no
\* project files), then POST /v1/builds, both inside the try
startBuild == Method(<<Step("local", TRUE), Step("http", TRUE)>>, "bodyOrMessage")

\* BuildService.downloadBuild: GET, then mkdir and createWriteStream inside the
\* try, then the promise of the stream write, returned without await: its
\* rejection passes the catch by
downloadBuild ==
    Method(<<Step("http", TRUE), Step("local", TRUE), Step("local", FALSE)>>, "bodyOrMessage")

\* AssetService.mintAsset: fs.readFileSync and ipfs.add before the try, then
\* POST /v1/assets/mint inside it
mintAsset ==
    Method(<<Step("local", FALSE), Step("local", FALSE), Step("http", TRUE)>>, "bodyOrMessage")

\* GameService.initProject: file system and config writes, no try, no request
initProject == Method(<<Step("local", FALSE)>>, "none")

\* a call of a service method by a handler
Call(svc, m) == [svc |-> svc, m |-> m]

ServiceMethod(call) ==
    CASE call = Call("auth", "validateToken") -> validateToken
      [] call = Call("auth", "getUserInfo")   -> getUserInfo
      [] call = Call("build", "startBuild")   -> startBuild
      [] call = Call("build", "downloadBuild") -> downloadBuild
      [] call = Call("asset", "mintAsset")    -> mintAsset
      [] call = Call("game", "initProject")   -> initProject
      [] OTHER -> Request

\* the catch clause of a service method, given the step that failed and whether
\* the server answered with a body that has a message
Catch(step, body) ==
    IF ~step.inTry THEN Error(FALSE, "message")
    ELSE IF step.catch = "bodyOrMessage"
         THEN Error(TRUE, IF body /\ step.kind = "http" THEN "body" ELSE "message")
    ELSE IF step.catch = "message" THEN Error(TRUE, "message")
    ELSE NoError

NoFailure == [svc |-> "", m |-> "", kind |-> "none", body |-> FALSE]

\* the steps of a sequence of calls, in the order they run
RECURSIVE Flat(_)
Flat(calls) ==
    IF calls = <<>> THEN <<>>
    ELSE LET c == Head(calls)
             meth == ServiceMethod(c)
         IN [i \in 1..Len(meth.steps) |->
                [svc |-> c.svc, m |-> c.m, kind |-> meth.steps[i].kind,
                 inTry |-> meth.steps[i].inTry, catch |-> meth.catch]]
            \o Flat(Tail(calls))

\* the outside world's part in one handler or callback run: which step fails
\* (0 or beyond the last step: none), whether the failing response has a body
\* message, and its answer to the one question the run asks (is the build
\* still running, is there a latest build, are there directories to watch,
\* does the user confirm)
Outcomes == [failAt : 0..MaxSteps, body : BOOLEAN, yes : BOOLEAN]

\* running `calls` in order until one step fails: the requests issued, the
\* failing step and the error that leaves the failing method.
\* by: what triggered the run (command, timer, fileChange);
\* awaitedBy: who awaits the calls (the handler, or a loop callback)
Perform(calls, o, by, awaitedBy) ==
    LET flat == Flat(calls)
        f    == IF o.failAt \in 1..Len(flat) THEN o.failAt ELSE 0
        done == IF f = 0 THEN flat ELSE SubSeq(flat, 1, f)
        reqs == [i \in 1..Len(done) |->
                    [svc |-> done[i].svc, m |-> done[i].m, kind |-> done[i].kind,
                     ok |-> i # f, by |-> by, awaitedBy |-> awaitedBy]]
    IN [ requests |-> SelectSeq(reqs, LAMBDA r : r.kind = "http"),
         failure  |-> IF f = 0 THEN NoFailure
                      ELSE [svc |-> flat[f].svc, m |-> flat[f].m, kind |-> flat[f].kind,
                            body |-> o.body /\ flat[f].kind = "http"],
         thrown   |-> IF f = 0 THEN NoError ELSE Catch(flat[f], o.body),
         ok       |-> f = 0 ]

-----------------------------------------------------------------------------
(* The process: what a handler leaves behind                               *)

\* poll and debounce intervals, in milliseconds
BuildPollMs   == 2000
DeployPollMs  == 3000
updateInterval == 5000
DebounceMs    == 1000

Timer(cb, svc, ms) == [cb |-> cb, svc |-> svc, ms |-> ms]
NoTimer == Timer("none", "", 0)

NoArgv == [cmd |-> "", sub |-> "", id |-> FALSE, opt |-> FALSE]
NoHandler == [cmd |-> "", sub |-> ""]

\* the options of a command line: --config <path> given, --force given,
\* --token given, --url given, the value of --decimals (commander's default
\* '18' when the flag is absent), and whether --name, --symbol and
\* --total-supply are all given
Options(cfg, force, token, url, decimals, complete) ==
    [config |-> cfg, force |-> force, token |-> token, url |-> url,
     decimals |-> decimals, complete |-> complete]
DefaultDecimals == <<"1","8">>
NoOptions == Options(FALSE, FALSE, FALSE, FALSE, DefaultDecimals, FALSE)

\* what a request carried: no base URL of its own, no decimals, no body fields
NoWire == [url |-> <<>>, decimals |-> NaN, body |-> {}]

\* one inquirer prompt and its answer
Prompt(name, answer) == [name |-> name, answer |-> answer]

\* the process-side state a handler works on
Fresh(heap, m) ==
    [ heap |-> heap, saved |-> FALSE, marker |-> m,
      printed |-> <<>>, requests |-> <<>>, thrown |-> NoError, failure |-> NoFailure,
      pc |-> "returned", exitCode |-> 0, timer |-> NoTimer, watching |-> FALSE,
      asked |-> <<>>, wire |-> NoWire ]

consoleLog(st, msg) == [st EXCEPT !.printed = Append(@, msg)]

\* the request interceptor of AuthService's client: the Authorization header
\* is `Bearer ${token}` with the token of the in-memory config when that token
\* is truthy; otherwise the header is not set (Undefined)
interceptor(heap) ==
    LET token == get(heap, Dotted(S_auth, S_token)).v
    IN IF Truthy(token) THEN token ELSE Undefined

\* the requests as they leave the client, with the token of their
\* Authorization header
Sent(reqs, bearer) ==
    [i \in 1..Len(reqs) |->
        [svc |-> reqs[i].svc, m |-> reqs[i].m, kind |-> reqs[i].kind, ok |-> reqs[i].ok,
         by |-> reqs[i].by, awaitedBy |-> reqs[i].awaitedBy, bearer |-> bearer]]

\* the state after Perform's requests were issued with the given bearer token
AfterWith(st, p, bearer) ==
    [st EXCEPT !.requests = @ \o Sent(p.requests, bearer),
               !.thrown = p.thrown, !.failure = p.failure]

\* the state after Perform's requests were issued through AuthService's client
\* (AuthCommand.status hands validateToken the same token of the config)
After(st, p) == AfterWith(st, p, interceptor(st.heap))

\* node ends the process with code 0 once no timer and no watcher is pending
Settle(st) ==
    IF st.pc = "exited" THEN st
    ELSE [st EXCEPT !.pc = IF st.timer # NoTimer \/ st.watching THEN "alive" ELSE "returned"]

\* AuthService.isAuthenticated
isAuthenticated(heap) == Truthy(get(heap, Dotted(S_auth, S_token)).v)

\* .gamebuild.json: absent, a text that is not JSON (invalid), or the text of
\* a JSON object, given by the tree of its properties
MarkerFile(state, tree) == [state |-> state, tree |-> tree]
Absent  == MarkerFile("absent", EmptyTree)
Invalid == MarkerFile("invalid", EmptyTree)

S_createdAt == <<"c","r","e","a","t","e","d","A","t">>
S_buildPath == <<"b","u","i","l","d","P","a","t","h">>
S_platform  == <<"p","l","a","t","f","o","r","m">>
S_gameId    == <<"g","a","m","e","I","d">>

\* new Date().toISOString() at the time of the call
IsoNow == <<"2","0","2","6">>

\* the projectConfig literal of initProject
projectConfig(gameId) ==
    [p \in {<<S_gameId>>, <<S_createdAt>>, <<S_buildPath>>, <<S_platform>>} |->
        CASE p = <<S_gameId>> -> gameId
          [] p = <<S_createdAt>> -> StrV(IsoNow)
          [] p = <<S_buildPath>> -> StrV(<<".","/","d","i","s","t">>)
          [] p = <<S_platform>> -> StrV(<<"w","e","b">>)]

\* a marker write that keeps the properties the old marker had besides the new
\* ones: the variant C15 is checked against
writeMarkerMerged(old, gameId) ==
    MarkerFile("json",
               [p \in DOMAIN old.tree \cup DOMAIN projectConfig(gameId) |->
                   IF p \in DOMAIN projectConfig(gameId)
                   THEN projectConfig(gameId)[p] ELSE old.tree[p]])

\* initProject's fs.writeFileSync(configPath, JSON.stringify(projectConfig, null, 2))
writeMarker(old, gameId) == MarkerFile("json", Stringify(projectConfig(gameId)))

\* what getLocalProject returns: null, or the object parsed from the marker
Project(null, tree) == [null |-> null, tree |-> tree]

\* a getLocalProject that only tests fs.existsSync and hands back whatever the
\* marker holds: the variant C7 is checked against
getLocalProjectUnchecked(m) ==
    IF m.state = "absent" THEN Project(TRUE, EmptyTree) ELSE Project(FALSE, m.tree)

\* GameService.getLocalProject: the parsed marker, null when it is absent or
\* does not parse
getLocalProject(m) ==
    IF m.state = "json" THEN Project(FALSE, Parse(m.tree)) ELSE Project(TRUE, EmptyTree)

\* a handleError that prints and lets the process go on: the variant C9 is
\* checked against
handleErrorNoExit(st) == consoleLog(st, "error")

\* BaseCommand.handleError: console.error, process.exit(1)
handleError(st) == [consoleLog(st, "error") EXCEPT !.pc = "exited", !.exitCode = 1]

\* a handler that awaits its calls one after the other inside the wrapper
\*   try { await this.handler(...) } catch (error) { this.handleError(error) }
\* p is what Perform made of the calls, done the message of the success branch
OneShot(st, p, done) ==
    IF p.thrown # NoError THEN handleError(After(st, p))
    ELSE consoleLog(After(st, p), done)

\* the requests of one pollLogs run of followLogs, for svc build or deploy
PollCalls(svc) ==
    <<Call(svc, "getLogs"), Call(svc, IF svc = "build" THEN "getBuild" ELSE "getDeployment")>>

\* a catch clause of pollLogs that schedules the next poll as the try block
\* does: the variant C10 is checked against
followCatchRetry(st, svc) ==
    [consoleLog(st, "loopError") EXCEPT
        !.timer = Timer("pollLogs", svc, IF svc = "build" THEN BuildPollMs ELSE DeployPollMs)]

\* the catch clause of pollLogs: print, schedule nothing
followCatch(st, svc) == consoleLog(st, "loopError")

\* a pollLogs that doubles the delay of the next poll: the variant C13 is
\* checked against
pollLogsBackoff(st, svc, p, yes) ==
    IF ~p.ok THEN followCatch([After(st, p) EXCEPT !.timer = NoTimer], svc)
    ELSE IF yes
         THEN [After(st, p) EXCEPT !.timer = Timer("pollLogs", svc,
                                      2 * (IF svc = "build" THEN BuildPollMs ELSE DeployPollMs))]
    ELSE consoleLog([After(st, p) EXCEPT !.timer = NoTimer], "finished")

\* followLogs' pollLogs: getLogs, then the status request; reschedules itself
\* while the build or deployment is running (yes)
pollLogs(st, svc, p, yes) ==
    IF ~p.ok THEN followCatch([After(st, p) EXCEPT !.timer = NoTimer], svc)
    ELSE IF yes
         THEN [After(st, p) EXCEPT !.timer = Timer("pollLogs", svc,
                                      IF svc = "build" THEN BuildPollMs ELSE DeployPollMs)]
    ELSE consoleLog([After(st, p) EXCEPT !.timer = NoTimer], "finished")

\* an updateDashboard whose catch clause prints and schedules nothing: the
\* variant C12 is checked against
updateDashboardOnce(st, p) ==
    IF p.ok
    THEN consoleLog([After(st, p) EXCEPT
                        !.timer = Timer("updateDashboard", "analytics", updateInterval)],
                    "dashboard")
    ELSE consoleLog([After(st, p) EXCEPT !.timer = NoTimer], "loopError")

\* AnalyticsCommand.realtime's updateDashboard: both branches reschedule while
\* isRunning, which only the SIGINT handler clears
updateDashboard(st, p) ==
    consoleLog([After(st, p) EXCEPT
                   !.timer = Timer("updateDashboard", "analytics", updateInterval)],
               IF p.ok THEN "dashboard" ELSE "loopError")

\* a rebuild whose failure goes to handleError: the variant C27 is checked
\* against
rebuildOrExit(st, p) ==
    IF p.ok THEN consoleLog([After(st, p) EXCEPT !.timer = NoTimer], "rebuilt")
    ELSE handleError([After(st, p) EXCEPT !.timer = NoTimer, !.watching = FALSE])

\* the debounced rebuild of startWatchBuild: startBuild in a try whose catch prints
rebuild(st, p) ==
    consoleLog([After(st, p) EXCEPT !.timer = NoTimer],
               IF p.ok THEN "rebuilt" ELSE "loopError")

\* BuildService.startWatchBuild: the first build is awaited by the handler;
\* watchers are installed when src or assets exist (yes)
startWatchBuild(st, p, yes) ==
    IF p.thrown # NoError THEN handleError(After(st, p))
    ELSE IF ~yes THEN consoleLog(After(st, p), "nothingToWatch")
    ELSE [consoleLog(After(st, p), "watching") EXCEPT !.watching = TRUE]

-----------------------------------------------------------------------------
(* The command classes: per subcommand, the handler's gates and calls      *)

\* gate: the handler starts with the isAuthenticated check;
\* project: the handler needs getLocalProject() (required), needs it unless an
\* id argument is given (unlessId), or does not read it (none);
\* calls: the service methods the handler awaits, in order
Row(gate, project, kind, calls) ==
    [gate |-> gate, project |-> project, kind |-> kind, calls |-> calls]

\* a handler that is the auth gate and one service call
Gated(svc, m) == Row(TRUE, "none", "oneshot", <<Call(svc, m)>>)
\* a handler that makes its one service call without the auth gate
Ungated(svc, m) == Row(FALSE, "none", "oneshot", <<Call(svc, m)>>)

AuthCommand(inv) ==
    [ login  |-> Row(FALSE, "none", "login", <<Call("auth", "validateToken")>>),
      logout |-> Row(FALSE, "none", "logout", <<>>),
      status |-> Row(FALSE, "none", "status",
                     <<Call("auth", "validateToken"), Call("auth", "getUserInfo")>>) ]

GameCommand(inv) ==
    [ create |-> Gated("game", "createGame"),
      list   |-> Gated("game", "listGames"),
      info   |-> Gated("game", "getGame"),
      delete |-> Row(TRUE, "none", "confirm", <<Call("game", "deleteGame")>>),
      init   |-> Row(TRUE, "none", IF inv.id THEN "init" ELSE "mayFindNone",
                     IF inv.id THEN <<Call("game", "initProject")>>
                     ELSE <<Call("game", "listGames"), Call("game", "initProject")>>) ]

BuildCommand(inv) ==
    [ start    |-> Row(TRUE, "required", IF inv.opt THEN "watch" ELSE "oneshot",
                       <<Call("build", "startBuild")>>),
      status   |-> Row(TRUE, "unlessId", IF inv.id THEN "oneshot" ELSE "mayFindNone",
                       <<Call("build", IF inv.id THEN "getBuild" ELSE "listBuilds")>>),
      list     |-> Row(TRUE, "required", "oneshot", <<Call("build", "listBuilds")>>),
      logs     |-> IF inv.opt THEN Row(TRUE, "none", "follow", PollCalls("build"))
                   ELSE Gated("build", "getLogs"),
      download |-> Gated("build", "downloadBuild") ]

DeployCommand(inv) ==
    [ start    |-> Row(TRUE, "required", IF inv.id THEN "oneshot" ELSE "mayFindNone",
                       (IF inv.id THEN <<>> ELSE <<Call("deploy", "getLatestSuccessfulBuild")>>)
                       \o (IF inv.opt THEN <<>> ELSE <<Call("game", "getGame")>>)
                       \o <<Call("deploy", "startDeployment")>>),
      status   |-> Row(TRUE, "unlessId", IF inv.id THEN "oneshot" ELSE "mayFindNone",
                       <<Call("deploy", IF inv.id THEN "getDeployment" ELSE "listDeployments")>>),
      list     |-> Row(TRUE, "required", "oneshot", <<Call("deploy", "listDeployments")>>),
      rollback |-> Row(TRUE, "none", "confirm", <<Call("deploy", "rollbackDeployment")>>),
      logs     |-> IF inv.opt THEN Row(TRUE, "none", "follow", PollCalls("deploy"))
                   ELSE Gated("deploy", "getLogs") ]

IdManagementCommand(inv) ==
    [ create      |-> Row(TRUE, "none", "identity", <<Call("identity", "createIdentity")>>),
      link        |-> Gated("identity", "linkWallet"),
      verify      |-> Gated("identity", "verifyIdentity"),
      profile     |-> Row(TRUE, "none", "oneshot",
                          IF inv.opt
                          THEN <<Call("identity", "getProfile"), Call("identity", "updateProfile")>>
                          ELSE <<Call("identity", "getProfile")>>),
      list        |-> Gated("identity", "listIdentities"),
      reputation  |-> Gated("identity", "getReputation"),
      permissions |-> Gated("identity", IF inv.opt THEN "addPermission" ELSE "getPermissions") ]

GuildCommand(inv) ==
    [ create |-> Gated("guild", "createGuild"),
      list   |-> Ungated("guild", "listGuilds"),
      info   |-> Ungated("guild", "getGuild"),
      join   |-> Ungated("guild", "joinGuild"),
      leave  |-> Ungated("guild", "leaveGuild") ]

AssetCommand(inv) ==
    [ mint        |-> Gated("asset", "mintAsset"),
      list        |-> Ungated("asset", "listAssets"),
      info        |-> Ungated("asset", "getAsset"),
      transfer    |-> Ungated("asset", "transferAsset"),
      burn        |-> Ungated("asset", "burnAsset"),
      issueErc20  |-> Row(TRUE, "none", "erc20", <<Call("asset", "issueErc20")>>),
      issueErc721 |-> Gated("asset", "issueErc721"),
      mintErc721  |-> Gated("asset", "mintErc721"),
      listErc20   |-> Gated("asset", "listErc20Tokens"),
      listErc721  |-> Gated("asset", "listErc721Collections") ]

AdCommand(inv) ==
    [ create     |-> Gated("ad", "createCampaign"),
      list       |-> Gated("ad", "listCampaigns"),
      info       |-> Gated("ad", "getCampaign"),
      start      |-> Gated("ad", "startCampaign"),
      pause      |-> Gated("ad", "pauseCampaign"),
      stats      |-> Gated("ad", "getCampaignStats"),
      placements |-> Row(TRUE, "none", "oneshot",
                         IF inv.opt THEN <<Call("ad", "listPlacements")>> ELSE <<>>),
      revenue    |-> Gated("ad", "getRevenue") ]

AnalyticsCommand(inv) ==
    [ overview  |-> Gated("analytics", "getOverview"),
      players   |-> Gated("analytics", "getPlayerAnalytics"),
      revenue   |-> Gated("analytics", "getRevenueAnalytics"),
      events    |-> Gated("analytics", "getEventAnalytics"),
      retention |-> Gated("analytics", "getRetentionAnalytics"),
      export    |-> Gated("analytics", "exportData"),
      realtime  |-> Row(TRUE, "none", "realtime", <<Call("analytics", "getRealTimeData")>>) ]

\* the command classes cli.ts registers, by the name of their group
Classes(inv) ==
    [ auth |-> AuthCommand(inv), game |-> GameCommand(inv), build |-> BuildCommand(inv),
      deploy |-> DeployCommand(inv), identity |-> IdManagementCommand(inv),
      guild |-> GuildCommand(inv), asset |-> AssetCommand(inv), ad |-> AdCommand(inv),
      analytics |-> AnalyticsCommand(inv) ]

-----------------------------------------------------------------------------
(* Dispatch: program.commands and commander's lookup                       *)

\* a command registered on the program: its name, the names of its
\* subcommands, and the handler of its own .action(), "" when it has none
Cmd(name, subs, action) == [name |-> name, subs |-> subs, action |-> action]

\* a command group: program.command(name) with one subcommand per handler
Group(name) == Cmd(name, DOMAIN Classes(NoArgv)[name], "")

\* program.commands after the register() calls of cli.ts, in their order.
\* BuildCommand.register and DeployCommand.register each add two commands of
\* the same name: the group, then the shorthand whose action is start.  The
\* config group is registered between deploy and identity.
program ==
    << Group("auth"), Group("game"),
       Group("build"), Cmd("build", {}, "start"),
       Group("deploy"), Cmd("deploy", {}, "start"),
       Cmd("config", {"set", "get", "list", "delete", "reset", "edit"}, ""),
       Group("identity"), Group("guild"), Group("asset"), Group("ad"), Group("analytics") >>

\* commander's Command._findCommand: this.commands.find(cmd => cmd._name === name)
findCommand(name) ==
    LET found == {i \in 1..Len(program) : program[i].name = name}
    IN program[CHOOSE i \in found : \A j \in found : i <= j]

\* the handler an invocation runs: the named subcommand of the command found,
\* else the command's own action, else the command's help
Dispatch(inv) ==
    LET c == findCommand(inv.cmd)
    IN IF inv.sub \in c.subs THEN [cmd |-> c.name, sub |-> inv.sub]
       ELSE IF c.action # "" THEN [cmd |-> c.name, sub |-> c.action]
       ELSE [cmd |-> c.name, sub |-> "help"]

\* the command lines of the model: every group with each of its subcommands
\* and with none, with and without an id argument and an option
Invocations ==
    UNION { { [cmd |-> c, sub |-> s, id |-> i, opt |-> p] :
                s \in DOMAIN Classes(NoArgv)[c] \cup {""}, i \in BOOLEAN, p \in BOOLEAN }
            : c \in DOMAIN Classes(NoArgv) }

-----------------------------------------------------------------------------
(* Handlers                                                                *)

S_baseUrl == <<"b","a","s","e","U","r","l">>
S_project == <<"p","r","o","j","e","c","t">>
S_name    == <<"n","a","m","e">>
\* 'https://api.gamebuild.com', the default of auth login
DefaultBaseUrl ==
    <<"h","t","t","p","s",":","/","/","a","p","i",".","g","a","m","e","b","u","i","l","d",".","c","o","m">>
\* the id given with --game-id
GameId == <<"g","1">>
\* game.id of the game selected from listGames' answer
SelectedGame == NumV(7)
\* a marker an earlier version of a tool has written: a game id and a property
\* of its own
OldMarker ==
    MarkerFile("json", [p \in {<<S_gameId>>, <<S_name>>} |-> StrV(<<"g","0">>)])

\* the U of `auth login --url U`, also what a user types at the base URL prompt
CustomUrl == <<"h","t","t","p",":","/","/","u">>
\* the values of --decimals: absent (commander's default), 0 and 8
DecimalsArgs == {DefaultDecimals, <<"0">>, <<"8">>}

\* the confirmation guard of a destructive handler that goes on whatever the
\* answer is: the variant C18 is checked against
confirmGuardAnyAnswer(force, answer) ==
    [asked |-> IF force THEN <<>> ELSE <<Prompt("confirm", BoolV(answer))>>, go |-> TRUE]

\* the confirmation guard of a destructive handler:
\*   if (!options.force) { const { confirm } = await inquirer.prompt(...);
\*                         if (!confirm) { ...cancelled; return; } }
\* the prompt it shows, and whether the handler goes on
confirmGuard(force, answer) ==
    [asked |-> IF force THEN <<>> ELSE <<Prompt("confirm", BoolV(answer))>>,
     go |-> force \/ answer]

\* a login that stores the credentials whatever validateToken returned: the
\* variant C22 is checked against
authLoginUnvalidated(st, p, opts, default) ==
    LET token   == StrV(LongSecret)
        baseUrl == IF opts.token /\ opts.url THEN CustomUrl
                   ELSE IF opts.token \/ default THEN DefaultBaseUrl ELSE CustomUrl
    IN [consoleLog(AfterWith([st EXCEPT !.wire = [NoWire EXCEPT !.url = baseUrl]], p, token), "ok")
          EXCEPT !.heap = set(set(st.heap, Dotted(S_auth, S_token), token).h,
                              Dotted(S_auth, S_baseUrl), StrV(baseUrl)).h,
                 !.saved = TRUE]

\* AuthCommand.login: token and base URL from the options, or both from the
\* prompt when --token is absent (the user leaves the base URL prompt at its
\* default, or types CustomUrl); validate, then store token and base URL, or
\* exit(1)
authLogin(st, p, opts, default) ==
    LET answers == [token |-> LongSecret,
                    baseUrl |-> IF default THEN DefaultBaseUrl ELSE CustomUrl]
        token   == StrV(LongSecret)
        baseUrl == IF opts.token
                   THEN (IF opts.url THEN CustomUrl ELSE DefaultBaseUrl)
                   ELSE answers.baseUrl
        st1 == [st EXCEPT
                   !.asked = IF opts.token THEN @
                             ELSE @ \o <<Prompt("token", StrV(answers.token)),
                                         Prompt("baseUrl", StrV(answers.baseUrl))>>,
                   !.wire = [NoWire EXCEPT !.url = baseUrl]]
    IN IF p.ok
       THEN [consoleLog(AfterWith(st1, p, token), "ok") EXCEPT
                !.heap = set(set(st.heap, Dotted(S_auth, S_token), token).h,
                             Dotted(S_auth, S_baseUrl), StrV(baseUrl)).h,
                !.saved = TRUE]
       ELSE [consoleLog(AfterWith(st1, p, token), "authFailed") EXCEPT
                !.pc = "exited", !.exitCode = 1]

\* AssetCommand.issueErc20 past its gate: decimals from --decimals, the prompts
\* when a required option is missing (the decimals prompt has no `when`; the
\* user leaves it at its default '18', or types 0), then the request
issueErc20(st, p, opts, default) ==
    LET answers  == [decimals |-> IF default THEN DefaultDecimals ELSE <<"0">>]
        decimals == IF opts.complete THEN parseInt(opts.decimals)
                    ELSE OrElse(parseInt(opts.decimals), parseInt(answers.decimals))
        st1 == [st EXCEPT
                   !.asked = IF opts.complete THEN @
                             ELSE Append(@, Prompt("decimals", StrV(answers.decimals))),
                   !.wire = [NoWire EXCEPT !.decimals = decimals]]
    IN OneShot(st1, p, "ok")

\* IdManagementService.createIdentity's request body: a wallet is generated
\* when no address is handed in, and walletData is spread into the body
createIdentityBody(walletAddress) ==
    LET walletData == IF ~walletAddress THEN {"walletAddress", "privateKey"}
                      ELSE {"walletAddress"}
    IN {"type", "displayName", "email"} \cup walletData

\* IdManagementCommand.createIdentity past its gate: the wallet address from
\* --wallet, or from the prompt, where the user types one or presses Enter
createIdentity(st, p, wallet, typed) ==
    LET walletAddress == wallet \/ typed
        st1 == [st EXCEPT
                   !.asked = IF wallet THEN @
                             ELSE Append(@, Prompt("walletAddress", BoolV(typed))),
                   !.wire = [NoWire EXCEPT !.body = createIdentityBody(walletAddress)]]
    IN IF p.thrown # NoError THEN handleError(After(st1, p))
       ELSE IF walletAddress THEN consoleLog(After(st1, p), "ok")
       ELSE consoleLog(consoleLog(After(st1, p), "ok"), "privateKey")

\* a destructive handler past its gate: the confirmation guard, then its call
destructive(st, p, force, answer) ==
    LET g   == confirmGuard(force, answer)
        st1 == [st EXCEPT !.asked = @ \o g.asked]
    IN IF g.go THEN OneShot(st1, p, "ok") ELSE consoleLog(st1, "cancelled")

\* AuthCommand.logout
authLogout(st) ==
    [consoleLog(st, "ok") EXCEPT
        !.heap = delete(delete(st.heap, Dotted(S_auth, S_token)), Dotted(S_auth, S_baseUrl)),
        !.saved = TRUE]

\* `${baseUrl}` in validateToken's URL: the stored string, 'undefined' when
\* nothing is stored
templateText(v) == IF v.t = "string" THEN v.s ELSE <<"u","n","d","e","f","i","n","e","d">>

\* AuthCommand.status: its own token check, then validateToken with the stored
\* auth.baseUrl (no default) and getUserInfo.  Without a stored base URL the
\* URL is 'undefined/v1/user/me': the request reaches no server, and
\* validateToken's catch returns false
authStatus(st, p) ==
    LET baseUrl == get(st.heap, Dotted(S_auth, S_baseUrl)).v
        st1 == [st EXCEPT !.wire = [NoWire EXCEPT !.url = templateText(baseUrl)]]
    IN IF ~isAuthenticated(st.heap) THEN consoleLog(st, "notAuthenticated")
       ELSE IF baseUrl.t # "string" THEN consoleLog(st1, "invalid")
       ELSE IF p.failure.m = "validateToken" THEN consoleLog(After(st1, p), "invalid")
       ELSE OneShot(st1, p, "ok")

\* GameCommand.init once the game id is known, with GameService.initProject's
\* writes to the marker and to the config
gameInit(st, p, gameId) ==
    IF p.thrown # NoError THEN handleError(After(st, p))
    ELSE [consoleLog(After(st, p), "ok") EXCEPT
             !.marker = writeMarker(st.marker, gameId),
             !.heap = set(set(st.heap, Dotted(S_project, S_gameId), gameId).h,
                          Dotted(S_project, S_name), gameId).h,
             !.saved = TRUE]

\* the auth gate and the project gate of a handler: the message of the gate
\* that stops it, "" when it goes on to its calls
Gate(row, inv, heap, m) ==
    IF row.gate /\ ~isAuthenticated(heap) THEN "login"
    ELSE IF \/ row.project = "required" /\ getLocalProject(m).null
            \/ row.project = "unlessId" /\ getLocalProject(m).null /\ ~inv.id
         THEN "noProject"
    ELSE ""

\* a handler that goes on to its remaining calls though its first call found
\* nothing: the variant C21 is checked against
AwaitedThoughNone(row, o) == row.calls

\* the calls a handler run awaits, given the outside world's answer: a handler
\* that may find nothing (no latest build, no games) stops after its first call
Awaited(row, o) ==
    IF row.kind = "mayFindNone" /\ ~o.yes THEN <<Head(row.calls)>> ELSE row.calls

\* a handler run past its gates, to the point where it returns or the process
\* exits; p is what Perform made of its calls
Handle(row, inv, opts, o, st, p) ==
    CASE row.kind = "oneshot" -> OneShot(st, p, "ok")
      [] row.kind = "confirm" -> destructive(st, p, opts.force, o.yes)
      [] row.kind = "erc20" -> issueErc20(st, p, opts, o.yes)
      [] row.kind = "identity" -> createIdentity(st, p, inv.opt, o.yes)
      [] row.kind = "mayFindNone" ->
            IF ~o.yes THEN OneShot(st, p, "none")
            ELSE IF inv.cmd = "game" THEN gameInit(st, p, SelectedGame)
            ELSE OneShot(st, p, "ok")
      [] row.kind = "follow" -> pollLogs(consoleLog(st, "following"), inv.cmd, p, o.yes)
      [] row.kind = "watch" -> startWatchBuild(st, p, o.yes)
      [] row.kind = "realtime" -> updateDashboard(st, p)
      [] row.kind = "login" -> authLogin(st, p, opts, o.yes)
      [] row.kind = "logout" -> authLogout(st)
      [] row.kind = "status" -> authStatus(st, p)
      [] row.kind = "init" -> gameInit(st, p, StrV(GameId))

\* the options an invocation can carry: --config <path> with any command,
\* --force (the invocation's option) with the destructive commands, --token
\* and --url with auth login, --decimals and the required options with
\* asset issue-erc20
OptionsOf(inv) ==
    LET login == inv.cmd = "auth" /\ inv.sub = "login"
        erc20 == inv.cmd = "asset" /\ inv.sub = "issueErc20"
        force == /\ inv.opt
                 /\ \/ inv.cmd = "game" /\ inv.sub = "delete"
                    \/ inv.cmd = "deploy" /\ inv.sub = "rollback"
    IN { Options(c, force, t, u, d, k) :
            c \in BOOLEAN,
            t \in IF login THEN BOOLEAN ELSE {FALSE},
            u \in IF login THEN BOOLEAN ELSE {FALSE},
            d \in IF erc20 THEN DecimalsArgs ELSE {DefaultDecimals},
            k \in IF erc20 THEN BOOLEAN ELSE {FALSE} }

\* commander's help for a group invoked without a subcommand: help({error: true})
\* on a command that has no exit override of its own
Help(st) == [consoleLog(st, "help") EXCEPT !.pc = "exited", !.exitCode = 1]

\* config files the command line process can find
Tree3 == [p \in {<<S_auth>>, <<S_auth, S_token>>} |->
            IF p = <<S_auth>> THEN ObjV ELSE StrV(<<>>)]
\* the config after a login: token and base URL
Tree4 == [p \in {<<S_auth>>, <<S_auth, S_token>>, <<S_auth, S_baseUrl>>} |->
            CASE p = <<S_auth>> -> ObjV
              [] p = <<S_auth, S_token>> -> StrV(LongSecret)
              [] OTHER -> StrV(DefaultBaseUrl)]
CliFiles == { EmptyTree, Tree1, Tree3, Tree4 }
Markers == { Absent, Invalid, OldMarker }

-----------------------------------------------------------------------------
(* Actions of the config model                                             *)

SetHeap(h) ==
    /\ config' = h.config
    /\ objectPrototype' = h.objProto
    /\ arrayPrototype' = h.arrProto

\* the heap of a process that has just constructed its ConfigService:
\* constructor -> load() -> JSON.parse of the file
Loaded ==
    [config |-> Parse(file), objProto |-> FreshObjectPrototype, arrProto |-> FreshArrayPrototype]

OneCall == nOps < MaxOps /\ nOps' = nOps + 1 /\ UNCHANGED <<cliVars, envVars>>
OneCommand ==
    /\ nOps < MaxCmds
    /\ nOps' = nOps + 1
    /\ UNCHANGED <<cliVars, loopVars, procs, saved, customFile, wire, followVars>>

\* new ConfigService()
Construct ==
    /\ OneCall
    /\ SetHeap(Loaded)
    /\ lastOp' = Op("construct", <<>>, <<>>, Undefined, JSUndefined, FALSE)
    /\ UNCHANGED <<file, out>>

\* ConfigService.set(key, value)
Set(key, value) ==
    /\ OneCall
    /\ LET r == set(Heap, key, value)
       IN /\ ~r.protoSet
          /\ SetHeap(r.h)
          /\ lastOp' = Op("set", key, <<>>, value, JSUndefined, r.threw)
    /\ UNCHANGED <<file, out>>

\* ConfigService.get(key)
Get(key) ==
    /\ OneCall
    /\ lastOp' = Op("get", key, <<>>, Undefined, get(Heap, key), FALSE)
    /\ UNCHANGED <<config, objectPrototype, arrayPrototype, file, out>>

\* ConfigService.delete(key)
Delete(key) ==
    /\ OneCall
    /\ SetHeap(delete(Heap, key))
    /\ lastOp' = Op("delete", key, <<>>, Undefined, JSUndefined, FALSE)
    /\ UNCHANGED <<file, out>>

\* ConfigService.save()
Save ==
    /\ OneCall
    /\ file' = Stringify(config)
    /\ lastOp' = Op("save", <<>>, <<>>, Undefined, JSUndefined, FALSE)
    /\ UNCHANGED <<config, objectPrototype, arrayPrototype, out>>

\* ConfigService.clear()
Clear ==
    /\ OneCall
    /\ SetHeap(clear(Heap))
    /\ lastOp' = Op("clear", <<>>, <<>>, Undefined, JSUndefined, FALSE)
    /\ UNCHANGED <<file, out>>

\* `gamebuild config set <key> <value>`: ConfigCommand.set in a new process
ConfigSet(key, value) ==
    /\ OneCommand
    /\ LET pv == parsedValue(value)
           r  == set(Loaded, key, pv)
       IN /\ ~r.protoSet
          /\ SetHeap(r.h)
          /\ file' = IF r.threw THEN file ELSE Stringify(r.h.config)
          /\ out' = IF r.threw THEN {} ELSE {Line("set", key, pv, pv)}
          /\ lastOp' = Op("config set", key, value, pv, JSUndefined, r.threw)
    /\ asked' = <<>>
    /\ options' = NoOptions

\* `gamebuild config get <key>`: ConfigCommand.get in a new process
ConfigGet(key) ==
    /\ OneCommand
    /\ LET value == get(Loaded, key)
       IN /\ out' = IF value.v = Undefined THEN {} ELSE StringifyLines("get", Loaded, key, value)
          /\ lastOp' = Op("config get", key, <<>>, Undefined, value, FALSE)
    /\ SetHeap(Loaded)
    /\ asked' = <<>>
    /\ options' = NoOptions
    /\ UNCHANGED file

\* `gamebuild config list --format <format>`: ConfigCommand.list in a new process
ConfigList(format) ==
    /\ OneCommand
    /\ out' = IF format = "json" THEN StringifyConfig(Loaded.config)
              ELSE printConfigObject(Loaded.config)
    /\ lastOp' = Op("config list", <<>>, <<>>, Undefined, JSUndefined, FALSE)
    /\ SetHeap(Loaded)
    /\ asked' = <<>>
    /\ options' = NoOptions
    /\ UNCHANGED file

\* `gamebuild config delete <key> [--force]`: ConfigCommand.delete in a new process;
\* confirm is the answer to the prompt
ConfigDelete(key, force, confirm) ==
    /\ OneCommand
    /\ LET currentValue == get(Loaded, key)
           found == currentValue.v # Undefined
           g  == confirmGuard(force, confirm)
           go == found /\ g.go
           h  == delete(Loaded, key)
       IN /\ SetHeap(IF go THEN h ELSE Loaded)
          /\ asked' = IF found THEN g.asked ELSE <<>>
          /\ options' = [NoOptions EXCEPT !.force = force]
          /\ file' = IF go THEN Stringify(h.config) ELSE file
          /\ lastOp' = Op("config delete", key, <<>>, BoolV(go), currentValue, FALSE)
    /\ out' = {}

\* `gamebuild config reset [--force]`: ConfigCommand.reset in a new process
ConfigReset(force, confirm) ==
    /\ OneCommand
    /\ LET g  == confirmGuard(force, confirm)
           go == g.go
       IN /\ SetHeap(IF go THEN clear(Loaded) ELSE Loaded)
          /\ asked' = g.asked
          /\ options' = [NoOptions EXCEPT !.force = force]
          /\ file' = IF go THEN Stringify(EmptyTree) ELSE file
          /\ lastOp' = Op("config reset", <<>>, <<>>, BoolV(go), JSUndefined, FALSE)
    /\ out' = {}

\* the command line process before it is started
NotStarted ==
    /\ argv = NoArgv
    /\ handler = NoHandler
    /\ pc = "start"
    /\ exitCode = 0
    /\ requests = <<>>
    /\ printed = <<>>
    /\ thrown = NoError
    /\ failure = NoFailure
    /\ timer = NoTimer
    /\ watching = FALSE
    /\ ticks = 0
    /\ now = 0
    /\ timers = <<>>
    /\ polls = <<>>
    /\ events = <<>>

\* no concurrent processes
Alone ==
    /\ procs = <<>>
    /\ saved = <<>>

\* no log is being followed; the server has queued the build or deployment
\* and logged nothing yet
NotFollowing ==
    /\ serverLog = <<>>
    /\ status = "queued"
    /\ logs = <<>>
    /\ lastLogLength = 0
    /\ chunks = <<>>
    /\ awaiting = "none"
    /\ seen = ""

\* nothing parsed, asked or sent yet; the file at --config's path is empty
Unasked ==
    /\ customFile = EmptyTree
    /\ options = NoOptions
    /\ asked = <<>>
    /\ wire = NoWire

InitConfig ==
    /\ file \in InitFiles
    /\ config = Parse(file)
    /\ objectPrototype = FreshObjectPrototype
    /\ arrayPrototype = FreshArrayPrototype
    /\ lastOp = NoOp
    /\ out = {}
    /\ nOps = 0
    /\ NotStarted
    /\ Alone
    /\ Unasked
    /\ NotFollowing
    /\ marker = Absent

\* one ConfigService instance and the calls made on it
NextConfig ==
    \/ Construct
    \/ \E key \in KeyStrings, value \in SetValues : Set(key, value)
    \/ \E key \in KeyStrings : Get(key)
    \/ \E key \in KeyStrings : Delete(key)
    \/ Save
    \/ Clear

SpecConfig == InitConfig /\ [][NextConfig]_vars

\* the config commands, one process each
NextConfigCmd ==
    \/ \E key \in KeyStrings, value \in ValueStrings : ConfigSet(key, value)
    \/ \E key \in KeyStrings : ConfigGet(key)
    \/ \E format \in {"table", "json"} : ConfigList(format)
    \/ \E key \in KeyStrings, force \in BOOLEAN, confirm \in BOOLEAN : ConfigDelete(key, force, confirm)
    \/ \E force \in BOOLEAN, confirm \in BOOLEAN : ConfigReset(force, confirm)

SpecConfigCmd == InitConfig /\ [][NextConfigCmd]_vars

-----------------------------------------------------------------------------
(* Actions of the command line process                                     *)

\* the process-side state as a record
Cur ==
    [ heap |-> Heap, saved |-> FALSE, marker |-> marker,
      printed |-> printed, requests |-> requests, thrown |-> thrown, failure |-> failure,
      pc |-> pc, exitCode |-> exitCode, timer |-> timer, watching |-> watching,
      asked |-> asked, wire |-> wire ]

\* the state a handler or callback leaves, after node's end-of-process rule
Become(st0) ==
    \E st \in {Settle(st0)} :
       /\ SetHeap(st.heap)
       /\ file' = IF st.saved THEN Stringify(st.heap.config) ELSE file
       /\ marker' = st.marker
       /\ printed' = st.printed
       /\ requests' = st.requests
       /\ thrown' = st.thrown
       /\ failure' = st.failure
       /\ pc' = st.pc
       /\ exitCode' = st.exitCode
       /\ timer' = st.timer
       /\ watching' = st.watching
       /\ asked' = st.asked
       /\ wire' = st.wire

\* `gamebuild <cmd> [sub] [id] [option]`: the process starts, every command
\* class constructs its services (each ConfigService loads the file),
\* commander dispatches, and the handler runs
Exec(inv, opts, o) ==
    /\ pc = "start"
    /\ options' = opts
    /\ \E h \in {Dispatch(inv)}, st \in {Fresh(Loaded, marker)} :
          /\ argv' = inv
          /\ handler' = h
          /\ IF h.sub = "help" THEN Become(Help(st))
             ELSE \E row \in {Classes(inv)[h.cmd][h.sub]} :
                  \E stop \in {Gate(row, inv, st.heap, marker)} :
                     IF stop # "" THEN Become(consoleLog(st, stop))
                     ELSE \E p \in {Perform(Awaited(row, o), o, "command",
                                            IF row.kind \in {"follow", "realtime"}
                                            THEN "loop" ELSE "handler")} :
                             Become(Handle(row, inv, opts, o, st, p))
    /\ UNCHANGED <<lastOp, out, nOps, ticks, loopVars, procs, saved, customFile, followVars>>

\* the requests of a timer callback
TimerCalls(t) ==
    CASE t.cb = "pollLogs" -> PollCalls(t.svc)
      [] t.cb = "updateDashboard" -> <<Call("analytics", "getRealTimeData")>>
      [] t.cb = "rebuild" -> <<Call("build", "startBuild")>>

\* the pending timer fires: pollLogs, updateDashboard or the debounced rebuild
Timeout(o) ==
    /\ pc = "alive"
    /\ timer # NoTimer
    /\ ticks < MaxTicks
    /\ ticks' = ticks + 1
    /\ \E st \in {Cur} :
       \E p \in {Perform(TimerCalls(timer), o,
                         IF timer.cb = "rebuild" THEN "fileChange" ELSE "timer", "loop")} :
          Become(CASE timer.cb = "pollLogs" -> pollLogs(st, timer.svc, p, o.yes)
                   [] timer.cb = "updateDashboard" -> updateDashboard(st, p)
                   [] timer.cb = "rebuild" -> rebuild(st, p))
    /\ UNCHANGED <<lastOp, out, nOps, argv, handler, loopVars, procs, saved, customFile, options,
                   followVars>>

\* fs.watch reports a change: watchCallback clears the pending rebuild and
\* schedules a new one
FileChange ==
    /\ pc = "alive"
    /\ watching
    /\ timer' = Timer("rebuild", "build", DebounceMs)
    /\ UNCHANGED <<cfgVars, marker, argv, handler, pc, exitCode, requests, printed,
                   thrown, failure, watching, ticks, envVars>>

\* Ctrl+C while a loop is alive: the SIGINT handler prints and calls process.exit(0)
Sigint ==
    /\ pc = "alive"
    /\ printed' = Append(printed, "stopped")
    /\ pc' = "exited"
    /\ exitCode' = 0
    /\ timer' = NoTimer
    /\ watching' = FALSE
    /\ UNCHANGED <<cfgVars, marker, argv, handler, requests, thrown, failure, ticks, envVars>>

InitCli ==
    /\ file \in CliFiles
    /\ config = Parse(file)
    /\ objectPrototype = FreshObjectPrototype
    /\ arrayPrototype = FreshArrayPrototype
    /\ lastOp = NoOp
    /\ out = {}
    /\ nOps = 0
    /\ NotStarted
    /\ Alone
    /\ Unasked
    /\ NotFollowing
    /\ marker \in Markers

NextCli ==
    \/ \E inv \in Invocations, o \in Outcomes : \E opts \in OptionsOf(inv) : Exec(inv, opts, o)
    \/ \E o \in Outcomes : Timeout(o)
    \/ FileChange
    \/ Sigint

SpecCli == InitCli /\ [][NextCli]_vars

\* one command line process that runs any command: a config command or a
\* command of the other groups
NextCmds ==
    \/ \E inv \in Invocations, o \in Outcomes :
          \E opts \in OptionsOf(inv) : nOps = 0 /\ Exec(inv, opts, o)
    \/ \E o \in Outcomes : Timeout(o)
    \/ FileChange
    \/ Sigint
    \/ \E key \in KeyStrings, value \in ValueStrings : pc = "start" /\ ConfigSet(key, value)
    \/ \E key \in KeyStrings : pc = "start" /\ ConfigGet(key)
    \/ \E format \in {"table", "json"} : pc = "start" /\ ConfigList(format)
    \/ \E key \in KeyStrings, force \in BOOLEAN, confirm \in BOOLEAN :
          pc = "start" /\ ConfigDelete(key, force, confirm)
    \/ \E force \in BOOLEAN, confirm \in BOOLEAN : pc = "start" /\ ConfigReset(force, confirm)

SpecCmds == InitCli /\ [][NextCmds]_vars

-----------------------------------------------------------------------------
(* The timer loops in time: a callback's requests are in flight between     *)
(* its start and its end, timers fire when they are due, time passes in     *)
(* between.                                                                *)

\* the steps time advances by
Delays == {500, 1000, 2000, 3000, 5000}

\* setTimeout(cb, ms) at time t; tm is the timer a callback asked for, if any
setTimeout(pending, tm, t) ==
    IF tm = NoTimer THEN pending
    ELSE Append(pending, [cb |-> tm.cb, svc |-> tm.svc, due |-> t + tm.ms])

\* clearTimeout of the timers of callback cb
clearTimeout(pending, cb) == SelectSeq(pending, LAMBDA tm : tm.cb # cb)

\* a watchCallback that schedules the rebuild without clearTimeout: the
\* variant C14 is checked against
watchCallbackNoClear(pending, t) ==
    setTimeout(pending, Timer("rebuild", "build", DebounceMs), t)

\* startWatchBuild's watchCallback: clearTimeout(buildTimeout), then
\* buildTimeout = setTimeout(rebuild, 1000)
watchCallback(pending, t) ==
    setTimeout(clearTimeout(pending, "rebuild"), Timer("rebuild", "build", DebounceMs), t)

\* a sequence without its k-th element
Remove(seq, k) == SubSeq(seq, 1, k - 1) \o SubSeq(seq, k + 1, Len(seq))

\* the run of a callback that started at time t
Run(cb, svc, t) == [cb |-> cb, svc |-> svc, start |-> t, end |-> -1]

\* the service calls a callback run awaits
RunCalls(r) ==
    IF r.cb = "startWatchBuild" THEN <<Call("build", "startBuild")>> ELSE TimerCalls(r)

\* the process lives while a callback awaits, a timer is pending or a watcher
\* is installed
Alive(st, runs, pending) ==
    IF st.pc = "exited" THEN "exited"
    ELSE IF \/ \E k \in 1..Len(runs) : runs[k].end = -1
            \/ pending # <<>>
            \/ st.watching
         THEN "alive"
    ELSE "returned"

\* a loop command starts: the handler passes its gates and runs to its first
\* await, the first poll (or the initial build of watch mode)
LoopStart(inv) ==
    /\ pc = "start"
    /\ \E h \in {Dispatch(inv)} :
          /\ h.sub # "help"
          /\ \E row \in {Classes(inv)[h.cmd][h.sub]} :
                /\ row.kind \in {"follow", "watch", "realtime"}
                /\ Gate(row, inv, Loaded, marker) = ""
                /\ SetHeap(Loaded)
                /\ argv' = inv
                /\ handler' = h
                /\ pc' = "alive"
                /\ printed' = IF row.kind = "follow" THEN <<"following">> ELSE <<>>
                /\ polls' = << Run(CASE row.kind = "follow" -> "pollLogs"
                                     [] row.kind = "watch" -> "startWatchBuild"
                                     [] row.kind = "realtime" -> "updateDashboard",
                                   inv.cmd, now) >>
    /\ UNCHANGED <<file, lastOp, out, nOps, marker, exitCode, requests, thrown, failure,
                   timer, watching, ticks, now, timers, events, otherVars>>

\* the requests of callback run k are answered: the callback runs to its end
\* and may call setTimeout
Resolve(k, o) ==
    /\ pc = "alive"
    /\ k \in 1..Len(polls)
    /\ polls[k].end = -1
    /\ \E r \in {polls[k]}, st0 \in {Cur} :
       \E p \in {Perform(RunCalls(r), o,
                         CASE r.cb = "rebuild" -> "fileChange"
                           [] k = 1 -> "command"
                           [] OTHER -> "timer",
                         IF r.cb = "startWatchBuild" THEN "handler" ELSE "loop")} :
       \E st \in {CASE r.cb = "pollLogs" -> pollLogs(st0, r.svc, p, o.yes)
                    [] r.cb = "updateDashboard" -> updateDashboard(st0, p)
                    [] r.cb = "rebuild" -> rebuild(st0, p)
                    [] r.cb = "startWatchBuild" -> startWatchBuild(st0, p, o.yes)} :
          /\ polls' = [polls EXCEPT ![k].end = now]
          /\ timers' = IF st.pc = "exited" THEN <<>> ELSE setTimeout(timers, st.timer, now)
          /\ timer' = st.timer
          /\ watching' = st.watching
          /\ requests' = st.requests
          /\ printed' = st.printed
          /\ thrown' = st.thrown
          /\ failure' = st.failure
          /\ exitCode' = st.exitCode
          /\ pc' = Alive(st, polls', timers')
    /\ UNCHANGED <<cfgVars, marker, argv, handler, ticks, now, events, otherVars>>

\* timer k is due: its callback starts and sends its first request
Fire(k) ==
    /\ pc = "alive"
    /\ k \in 1..Len(timers)
    /\ timers[k].due <= now
    /\ ticks < MaxTicks
    /\ ticks' = ticks + 1
    /\ timers' = Remove(timers, k)
    /\ polls' = Append(polls, Run(timers[k].cb, timers[k].svc, now))
    /\ UNCHANGED <<cfgVars, marker, argv, handler, pc, exitCode, requests, printed, thrown,
                   failure, timer, watching, now, events, otherVars>>

\* time passes while a timer is pending or requests are in flight, up to the
\* next timer that is due and to the latest answer of the requests in flight
Advance(d) ==
    /\ pc = "alive"
    /\ now + d <= MaxTime
    /\ timers # <<>> \/ \E k \in 1..Len(polls) : polls[k].end = -1
    /\ \A k \in 1..Len(timers) : now + d <= timers[k].due
    /\ \A k \in 1..Len(polls) : polls[k].end = -1 => now + d <= polls[k].start + MaxLatency
    /\ now' = now + d
    /\ UNCHANGED <<cfgVars, cliVars, timers, polls, events, otherVars>>

\* fs.watch reports a change in src or assets: watchCallback
Change ==
    /\ pc = "alive"
    /\ watching
    /\ Len(events) < MaxEvents
    /\ events' = Append(events, now)
    /\ timers' = watchCallback(timers, now)
    /\ UNCHANGED <<cfgVars, cliVars, now, polls, otherVars>>

\* Ctrl+C: the SIGINT handler prints and calls process.exit(0)
Interrupt ==
    /\ pc = "alive"
    /\ watching \/ polls # <<>>
    /\ printed' = Append(printed, "stopped")
    /\ pc' = "exited"
    /\ exitCode' = 0
    /\ timers' = <<>>
    /\ UNCHANGED <<cfgVars, marker, argv, handler, requests, thrown, failure, timer,
                   watching, ticks, now, polls, events, otherVars>>

\* the loop commands, each with the option that starts its loop
LoopInvocations ==
    { [cmd |-> "build", sub |-> "logs", id |-> TRUE, opt |-> TRUE],
      [cmd |-> "deploy", sub |-> "logs", id |-> TRUE, opt |-> TRUE],
      [cmd |-> "build", sub |-> "start", id |-> FALSE, opt |-> TRUE],
      [cmd |-> "analytics", sub |-> "realtime", id |-> FALSE, opt |-> FALSE] }

\* the outcomes of a callback run: the loops do not look at the response body
LoopOutcomes == {o \in Outcomes : ~o.body}

\* a logged-in user in an initialised project
InitLoop ==
    /\ InitCli
    /\ file = Tree1
    /\ marker = OldMarker

NextLoop ==
    \/ \E inv \in LoopInvocations : LoopStart(inv)
    \/ \E k \in 1..(MaxTicks + 1), o \in LoopOutcomes : Resolve(k, o)
    \/ \E k \in 1..MaxEvents : Fire(k)
    \/ \E d \in Delays : Advance(d)
    \/ Change
    \/ Interrupt

SpecLoop == InitLoop /\ [][NextLoop]_vars

-----------------------------------------------------------------------------
(* Two CLI processes on one config file                                    *)

Procs == {1, 2}

\* a save() that reads the file again and writes its content with the
\* in-memory properties laid over it: the variant C16 is checked against
saveMerged(h, onDisk) ==
    [p \in DOMAIN onDisk \cup DOMAIN Stringify(h.config) |->
        IF p \in DOMAIN Stringify(h.config) THEN Stringify(h.config)[p] ELSE onDisk[p]]

\* ConfigService.save: the file's new content, given the in-memory config and
\* the file's content at the time of the call
save(h, onDisk) == Stringify(h.config)

\* the heap of a process that loaded the file when it held `tree`
LoadedFrom(tree) ==
    [config |-> Parse(tree), objProto |-> FreshObjectPrototype, arrProto |-> FreshArrayPrototype]

\* process i calls set(key, value) on its ConfigService
ProcSet(i, key, value) ==
    /\ Len(procs[i].sets) < MaxOps - 1
    /\ i \notin {saved[k] : k \in 1..Len(saved)}
    /\ procs' = [procs EXCEPT ![i].heap = set(@, key, value).h,
                              ![i].sets = Append(@, [key |-> key, value |-> value])]
    /\ UNCHANGED <<config, objectPrototype, arrayPrototype, file, lastOp, out, nOps,
                   cliVars, loopVars, saved, customFile, options, asked, wire, followVars>>

\* process i calls save()
ProcSave(i) ==
    /\ i \notin {saved[k] : k \in 1..Len(saved)}
    /\ file' = save(procs[i].heap, file)
    /\ saved' = Append(saved, i)
    /\ UNCHANGED <<config, objectPrototype, arrayPrototype, lastOp, out, nOps,
                   cliVars, loopVars, procs, customFile, options, asked, wire, followVars>>

\* both processes have constructed their ConfigService on the same file
InitTwo ==
    /\ file \in InitFiles
    /\ config = Parse(file)
    /\ objectPrototype = FreshObjectPrototype
    /\ arrayPrototype = FreshArrayPrototype
    /\ lastOp = NoOp
    /\ out = {}
    /\ nOps = 0
    /\ NotStarted
    /\ marker = Absent
    /\ procs = [i \in Procs |-> [heap |-> LoadedFrom(file), loaded |-> file, sets |-> <<>>]]
    /\ saved = <<>>
    /\ Unasked
    /\ NotFollowing

NextTwo ==
    \/ \E i \in Procs, key \in KeyStrings, value \in SetValues : ProcSet(i, key, value)
    \/ \E i \in Procs : ProcSave(i)

SpecTwo == InitTwo /\ [][NextTwo]_vars

-----------------------------------------------------------------------------
(* Properties of ConfigService and of the config commands                  *)

\* C2: after ConfigService.set(k, v) returns, get(k) returns v, for every
\* dotted key path k and every value v, in every reachable config state.
C2_SetThenGet ==
    lastOp.op = "set" =>
        /\ ~lastOp.threw
        /\ get(Heap, lastOp.key).v = lastOp.value

\* C3: after ConfigService.delete(k), get(k) returns undefined, for every
\* dotted key path k, in every reachable config state.
C3_DeleteThenGet ==
    lastOp.op = "delete" => get(Heap, lastOp.key).v = Undefined

\* the strings C4 calls numeric literals: an optionally signed decimal
\* literal with nothing around it
NumericLiteral(s) ==
    /\ s # <<>>
    /\ ~IsWhiteSpace(s[1]) /\ ~IsWhiteSpace(s[Len(s)])
    /\ ~Number(s).nan

\* the value C4 says `config set <key> s` stores
Coerced(s) ==
    IF s = <<"t","r","u","e">> THEN BoolV(TRUE)
    ELSE IF s = <<"f","a","l","s","e">> THEN BoolV(FALSE)
    ELSE IF NumericLiteral(s) THEN NumberV(Number(s))
    ELSE IF (startsWith(s, <<"{">>) \/ startsWith(s, <<"[">>)) /\ IsJson(s) THEN JsonParse(s)
    ELSE StrV(s)

\* C4: `config set <key> s` stores true/false for 'true'/'false', the number
\* for a numeric literal, the parsed value for JSON object or array text, and
\* the string s itself, unchanged, for every other s, the empty string included.
C4_Coercion ==
    lastOp.op = "config set" => lastOp.value = Coerced(lastOp.arg)

\* the dotted keys C5 calls sensitive
SensitiveKey(key) ==
    \E w \in { <<"t","o","k","e","n">>, <<"s","e","c","r","e","t">>,
               <<"p","a","s","s","w","o","r","d">> } : includes(key, w)

\* C5: every line a config command prints for a leaf with a sensitive key shows
\* a masked value, never the stored one, whatever the stored value and whichever
\* command prints it (list as table or json, get, the echo of set).
C5_Masked ==
    \A l \in out : SensitiveKey(l.key) => l.shown # l.raw

-----------------------------------------------------------------------------
(* Properties of the command line process                                  *)

\* the handler the process ran, as its row of the command tables
Ran == Classes(argv)[handler.cmd][handler.sub]

\* a handler has run: commander found one, and it is not a group's help
HandlerRan == pc # "start" /\ handler.sub # "help"

\* the handler's calls include an HTTP request
SendsRequest(row) ==
    \E i \in 1..Len(Flat(row.calls)) : Flat(row.calls)[i].kind = "http"

\* the groups whose services use the authenticated HTTP client
AuthenticatedGroups ==
    {"game", "build", "deploy", "identity", "guild", "asset", "ad", "analytics"}

\* C1: every handler of the game, build, deploy, identity, guild, asset, ad and
\* analytics groups that sends a request, when invoked with no auth.token
\* stored, prints the login message and returns with zero HTTP requests issued.
\* (None of these handlers changes auth.token, so the token after the run is
\* the token at invocation.)
C1_AuthGate ==
    ( /\ HandlerRan
      /\ handler.cmd \in AuthenticatedGroups
      /\ SendsRequest(Ran)
      /\ ~isAuthenticated(Heap) )
    => /\ printed = <<"login">>
       /\ requests = <<>>
       /\ pc = "returned"

\* C6: `build` and `deploy` invoked without a subcommand run the start handler
\* of their class, as `build start` and `deploy start` do.
C6_Shorthand ==
    (pc # "start" /\ argv.cmd \in {"build", "deploy"} /\ argv.sub = "")
    => handler = [cmd |-> argv.cmd, sub |-> "start"]

\* the handlers C7 is about: start and list of build and deploy, and status
\* when no id argument is given
NeedsProject ==
    /\ HandlerRan
    /\ handler.cmd \in {"build", "deploy"}
    /\ \/ handler.sub \in {"start", "list"}
       \/ handler.sub = "status" /\ ~argv.id

\* C7: without a readable project marker (absent, or not valid JSON) these
\* handlers print the no-project message when a token is stored, and only the
\* login message when it is not; either way they return normally: no HTTP
\* request, no process.exit.
C7_NoLocalProject ==
    (NeedsProject /\ marker.state \in {"absent", "invalid"})
    => /\ printed = IF isAuthenticated(Heap) THEN <<"noProject">> ELSE <<"login">>
       /\ requests = <<>>
       /\ pc = "returned"
       /\ exitCode = 0

\* deploy start with a token and a marker that is not valid JSON has printed
\* the no-project message
C7_Witness ==
    /\ handler = [cmd |-> "deploy", sub |-> "start"]
    /\ marker = Invalid
    /\ isAuthenticated(Heap)
    /\ printed = <<"noProject">>
    /\ pc = "returned"

\* the failing step belongs to a service method that performs an HTTP call
FailedInHttpMethod ==
    /\ failure # NoFailure
    /\ \E i \in 1..Len(ServiceMethod(Call(failure.svc, failure.m)).steps) :
          ServiceMethod(Call(failure.svc, failure.m)).steps[i].kind = "http"

\* C8: when a step of a service method that performs an HTTP call fails, the
\* method throws a new Error that carries the message of the response body when
\* there is one and the message of the underlying error otherwise.
C8_Wrapped ==
    FailedInHttpMethod
    => /\ thrown.wrapped
       /\ thrown.carries = IF failure.body THEN "body" ELSE "message"

\* what the process printed
Printed == {printed[i] : i \in 1..Len(printed)}

\* C9 as stated: once a request has failed, the error is printed and the
\* process has ended with exit code 1.
C9_FailureExits ==
    (\E i \in 1..Len(requests) : ~requests[i].ok)
    => pc = "exited" /\ exitCode = 1

\* C9, amended: a failed request that the handler awaits ends the process with
\* the error printed and exit code 1 through handleError; a failed request of
\* a loop callback (log follow poll, watch rebuild, dashboard refresh) is
\* printed by the callback and never ends the process with exit code 1; a
\* failed validateToken makes auth login exit with 1 by itself and auth status
\* return normally.
C9_HandlerFailureExits ==
    \A i \in 1..Len(requests) :
        ~requests[i].ok =>
            IF requests[i].m = "validateToken"
            THEN IF handler.sub = "login"
                 THEN pc = "exited" /\ exitCode = 1 /\ "authFailed" \in Printed
                 ELSE pc = "returned" /\ exitCode = 0 /\ "invalid" \in Printed
            ELSE IF requests[i].awaitedBy = "handler"
                 THEN pc = "exited" /\ exitCode = 1 /\ "error" \in Printed
            ELSE /\ "loopError" \in Printed
                 /\ ~(pc = "exited" /\ exitCode = 1)

\* a one-shot handler's request has failed and handleError has ended the process
C9_Witness ==
    /\ \E i \in 1..Len(requests) :
          ~requests[i].ok /\ requests[i].awaitedBy = "handler" /\ requests[i].m # "validateToken"
    /\ "error" \in Printed
    /\ pc = "exited"
    /\ exitCode = 1

\* request j repeats the failed request i on a timer
TimerRepeat(i, j) ==
    /\ i < j
    /\ ~requests[i].ok
    /\ requests[j].svc = requests[i].svc
    /\ requests[j].m = requests[i].m
    /\ requests[j].by = "timer"

\* C10 as stated: no failed request is followed by a timer-scheduled repeat of
\* the same request.
C10_NoRetry ==
    \A i \in 1..Len(requests), j \in 1..Len(requests) : ~TimerRepeat(i, j)

\* C10, amended: the only request repeated on a timer after it failed is the
\* realtime dashboard's getRealTimeData; a failed log follow poll and a failed
\* watch rebuild schedule nothing.
C10_NoRetryButRealtime ==
    \A i \in 1..Len(requests), j \in 1..Len(requests) :
        TimerRepeat(i, j) => requests[i].m = "getRealTimeData"

\* a timer-scheduled log poll has failed and the follow loop has ended
C10_Witness ==
    /\ \E i \in 1..Len(requests) :
          ~requests[i].ok /\ requests[i].m = "getLogs" /\ requests[i].by = "timer"
    /\ timer = NoTimer
    /\ pc = "returned"

\* C11: every HTTP request carries an Authorization header whose token is the
\* auth.token of the local config at the time the request is sent.  (The
\* handlers that change auth.token send no request after the change, so the
\* config at the end of the step is the config the request was sent under,
\* except for auth login, which stores the token it has just sent.)
C11_BearerOnEveryCall ==
    \A i \in 1..Len(requests) :
        /\ requests[i].bearer # Undefined
        /\ handler # [cmd |-> "auth", sub |-> "login"]
           => requests[i].bearer = get(Heap, Dotted(S_auth, S_token)).v

\* a timer loop was started: the handler got past its gates into followLogs,
\* into the watchers of startWatchBuild, or into realtime's updateDashboard
LoopStarted(kind) ==
    /\ HandlerRan
    /\ Ran.kind = kind
    /\ CASE kind = "follow" -> "following" \in Printed
         [] kind = "watch" -> "watching" \in Printed
         [] kind = "realtime" -> printed # <<>> /\ printed # <<"login">>

\* the process was ended by the SIGINT handler: farewell line, exit code 0
EndedBySigint ==
    /\ pc = "exited"
    /\ exitCode = 0
    /\ printed[Len(printed)] = "stopped"

\* C12 as stated: a timer loop that was started and is over was ended by
\* SIGINT, whatever the responses and errors of its requests.
C12_OnlySigintEnds ==
    \A kind \in {"follow", "watch", "realtime"} :
        (LoopStarted(kind) /\ pc # "alive") => EndedBySigint

\* C12, amended: the watch-rebuild loop and the realtime dashboard are ended
\* only by SIGINT; a log follow loop is ended by SIGINT, by a status other than
\* building / deploying, or by a request error, and in the latter two cases the
\* process ends by itself with exit code 0.
C12_LoopEnds ==
    /\ \A kind \in {"watch", "realtime"} :
          (LoopStarted(kind) /\ pc # "alive") => EndedBySigint
    /\ (LoopStarted("follow") /\ pc # "alive")
       => \/ EndedBySigint
          \/ /\ pc = "returned"
             /\ exitCode = 0
             /\ printed[Len(printed)] \in {"finished", "loopError"}

\* the realtime dashboard went on after a failed refresh until SIGINT ended it
C12_Witness ==
    /\ LoopStarted("realtime")
    /\ \E i \in 1..Len(requests) : ~requests[i].ok
    /\ EndedBySigint

\* the runs of callback cb whose requests are in flight
InFlight(cb) == {k \in 1..Len(polls) : polls[k].cb = cb /\ polls[k].end = -1}

\* the pending timers of callback cb
Pending(cb) == {k \in 1..Len(timers) : timers[k].cb = cb}

\* the delay of each polling loop
Interval(cb, svc) ==
    CASE cb = "pollLogs" /\ svc = "build" -> BuildPollMs
      [] cb = "pollLogs" /\ svc = "deploy" -> DeployPollMs
      [] cb = "updateDashboard" -> updateInterval

\* C13: in log follow and in the realtime dashboard a poll is in flight or a
\* timer of the loop is pending, never two of them and never both, and every
\* poll after the first starts exactly the loop's interval (2 s, 3 s, 5 s) after
\* the end of the poll before it.
C13_Polling ==
    \A cb \in {"pollLogs", "updateDashboard"} :
        /\ Cardinality(InFlight(cb)) + Cardinality(Pending(cb)) <= 1
        /\ \A k \in 2..Len(polls) :
              polls[k].cb = cb =>
                  /\ polls[k - 1].cb = cb
                  /\ polls[k - 1].end >= 0
                  /\ polls[k].start = polls[k - 1].end + Interval(cb, polls[k].svc)

\* the dashboard's second refresh has started 5 s after the first one, which
\* took some time, had ended
C13_Witness ==
    /\ Len(polls) >= 2
    /\ polls[2].cb = "updateDashboard"
    /\ polls[1].end > polls[1].start
    /\ polls[2].start = polls[1].end + 5000

\* the runs of the debounced rebuild
RebuildRuns == {k \in 1..Len(polls) : polls[k].cb = "rebuild"}

\* event i is the last of its burst: no event follows it before time `until`
LastOfBurst(i, until) ==
    \A j \in 1..Len(events) : ~(events[i] < events[j] /\ events[j] < until)

\* C14: at most one debounce timer is pending; every rebuild starts 1 s after
\* the last event of a burst; no burst has two rebuilds; and once more than 1 s
\* has passed since the last event of a burst its rebuild has started.
C14_Debounce ==
    /\ Cardinality(Pending("rebuild")) <= 1
    /\ \A k \in RebuildRuns :
          \E i \in 1..Len(events) :
              /\ polls[k].start = events[i] + 1000
              /\ LastOfBurst(i, polls[k].start)
    /\ \A k1 \in RebuildRuns, k2 \in RebuildRuns :
          k1 # k2 => polls[k1].start # polls[k2].start
    /\ \A i \in 1..Len(events) :
          (now > events[i] + 1000 /\ LastOfBurst(i, events[i] + 1000 + 1))
          => \E k \in RebuildRuns : polls[k].start = events[i] + 1000

\* two events half a second apart were followed by one rebuild, 1 s after the
\* second event
C14_Witness ==
    /\ Len(events) = 2
    /\ events[2] = events[1] + 500
    /\ Cardinality(RebuildRuns) = 1
    /\ \E k \in RebuildRuns : polls[k].start = events[2] + 1000
    /\ now > events[2] + 1000

\* the game id GameCommand.init hands to initProject: the --game-id option, or
\* the id of the game selected at the prompt
InitGameId == IF argv.id THEN StrV(GameId) ELSE SelectedGame

\* `game init` has completed
InitCompleted ==
    /\ handler = [cmd |-> "game", sub |-> "init"]
    /\ pc = "returned"
    /\ printed = <<"ok">>

\* C15: after initProject(g) has completed the marker is a JSON object with
\* exactly the properties gameId = g, createdAt, buildPath and platform,
\* whatever the marker held before, and getLocalProject() returns an object
\* whose gameId is g.
C15_MarkerRoundTrip ==
    InitCompleted
    => /\ marker.state = "json"
       /\ DOMAIN marker.tree = {<<S_gameId>>, <<S_createdAt>>, <<S_buildPath>>, <<S_platform>>}
       /\ marker.tree[<<S_gameId>>] = InitGameId
       /\ ~getLocalProject(marker).null
       /\ getLocalProject(marker).tree[<<S_gameId>>] = InitGameId

\* `game init --game-id g1` has replaced a marker that held another game id
\* and a property of its own
C15_Witness ==
    /\ InitCompleted
    /\ argv.id
    /\ marker.tree[<<S_gameId>>] = StrV(GameId)
    /\ <<S_name>> \notin DOMAIN marker.tree

\* both processes have set one key each, the keys differ, and both have saved
BothSaved ==
    /\ Len(saved) = 2
    /\ \A i \in Procs : Len(procs[i].sets) = 1
    /\ procs[1].sets[1].key # procs[2].sets[1].key

\* C16 as stated: after both saves the file equals the last saver's in-memory
\* config and does not contain the key the other process set.
C16_LastSaverWins ==
    BothSaved
    => /\ file = Stringify(procs[saved[2]].heap.config)
       /\ split(procs[saved[1]].sets[1].key) \notin DOMAIN file

\* C16, amended: after both saves the file is the content both processes
\* loaded with only the last saver's set() applied to it: the first saver's
\* write is lost, and its key is in the file only as far as the loaded content
\* or the last saver's own write put it there.
C16_LostUpdate ==
    BothSaved
    => /\ file = Stringify(procs[saved[2]].heap.config)
       /\ file = Stringify(set(LoadedFrom(procs[saved[2]].loaded),
                              procs[saved[2]].sets[1].key,
                              procs[saved[2]].sets[1].value).h.config)

\* process 1 set a.b and saved, then process 2, which had set a, saved: the
\* file holds a as process 2 set it and nothing of a.b
C16_Witness ==
    /\ BothSaved
    /\ saved = <<1, 2>>
    /\ procs[1].sets[1].key = Dotted(S_a, S_b)
    /\ procs[2].sets[1].key = S_a
    /\ procs[1].loaded = EmptyTree
    /\ <<S_a, S_b>> \notin DOMAIN file
    /\ <<S_a>> \in DOMAIN file

-----------------------------------------------------------------------------
(* Options: --config, --force, --url, --decimals                           *)

\* `auth login` has validated its token and stored it
LoginSucceeded ==
    /\ handler = [cmd |-> "auth", sub |-> "login"]
    /\ pc = "returned"
    /\ printed = <<"ok">>

\* `auth status` has run
StatusRan == handler = [cmd |-> "auth", sub |-> "status"] /\ pc # "start"

\* C17 as stated: when --config <path> is given, the config the command reads
\* and writes is the file at <path>: after `auth status` the in-memory config
\* is what that file holds, and after a successful `auth login` that file
\* holds the in-memory config with the stored token.
C17_ConfigPath ==
    options.config =>
        /\ StatusRan => config = Parse(customFile)
        /\ LoginSucceeded => customFile = Stringify(config)

\* the requests that delete a game or roll a deployment back
Mutating ==
    {i \in 1..Len(requests) : requests[i].m \in {"deleteGame", "rollbackDeployment"}}

\* this step runs a destructive command: the handler of game delete or deploy
\* rollback past its auth gate, or config delete on a key that exists, or
\* config reset
DestructiveStep ==
    \/ /\ pc = "start"
       /\ handler' \in {[cmd |-> "game", sub |-> "delete"], [cmd |-> "deploy", sub |-> "rollback"]}
       /\ printed' # <<"login">>
    \/ /\ nOps' = nOps + 1
       /\ \/ lastOp'.op = "config delete" /\ lastOp'.result.v # Undefined
          \/ lastOp'.op = "config reset"

\* C18: a step that runs a destructive command shows the confirmation prompt
\* exactly when --force is absent; it sends a mutating request or changes the
\* in-memory or the persisted config only when --force was given or the prompt
\* was answered yes; and without --force and with the answer no it sends no
\* mutating request, keeps the config as loaded and leaves the file as it was.
C18_ConfirmGuard ==
    [][ DestructiveStep =>
          /\ options'.force <=> asked' = <<>>
          /\ (Mutating' # {} \/ config' # Parse(file) \/ file' # file)
                => (options'.force \/ asked' = <<Prompt("confirm", BoolV(TRUE))>>)
          /\ (~options'.force /\ asked' = <<Prompt("confirm", BoolV(FALSE))>>)
                => (Mutating' = {} /\ config' = Parse(file) /\ file' = file) ]_vars

\* game delete without --force, the prompt answered no: nothing was sent
C18_Witness ==
    /\ handler = [cmd |-> "game", sub |-> "delete"]
    /\ ~options.force
    /\ asked = <<Prompt("confirm", BoolV(FALSE))>>
    /\ printed = <<"cancelled">>
    /\ requests = <<>>
    /\ pc = "returned"

\* `auth login` has sent its validation request
LoginRan == handler = [cmd |-> "auth", sub |-> "login"] /\ pc # "start"

\* C19 as stated: whenever --url U is given, auth login validates the token
\* against U and, when the token is valid, stores U as auth.baseUrl, with
\* --token and with the token entered at the prompt.
C19_UrlOption ==
    (LoginRan /\ options.url) =>
        /\ wire.url = CustomUrl
        /\ LoginSucceeded => get(Heap, Dotted(S_auth, S_baseUrl)).v = StrV(CustomUrl)

\* `asset issue-erc20` has sent its request
IssueRan ==
    /\ handler = [cmd |-> "asset", sub |-> "issueErc20"]
    /\ \E i \in 1..Len(requests) : requests[i].m = "issueErc20"

\* C20 as stated: the decimals sent in the issue request are the integer given
\* with --decimals, 18 when the flag is absent, for every integer n >= 0, with
\* and without the interactive prompts.
C20_Decimals == IssueRan => wire.decimals = parseInt(options.decimals)

-----------------------------------------------------------------------------
(* deploy start, auth login                                                *)

\* the service methods of the requests issued so far, in order
Methods == [i \in 1..Len(requests) |-> requests[i].m]

\* `deploy start` has run past its token and project checks
DeployStartRan ==
    /\ handler = [cmd |-> "deploy", sub |-> "start"]
    /\ pc # "start"
    /\ printed \notin {<<"login">>, <<"noProject">>}

\* the requests of `deploy start`, given which of --build-id (the id of the
\* command line) and --platform (its option) are present
DeployOrder ==
    (IF argv.id THEN <<>> ELSE <<"getLatestSuccessfulBuild">>)
    \o (IF argv.opt THEN <<>> ELSE <<"getGame">>)
    \o <<"startDeployment">>

\* C21: the requests of `deploy start` are a prefix of: latest successful
\* build (without --build-id), game (without --platform), start deployment;
\* the deployment is started only after every earlier request succeeded, and
\* when there is no successful build the only request is the one for it.
C21_DeployOrder ==
    DeployStartRan =>
        /\ IsPrefix(Methods, DeployOrder)
        /\ \A i \in 1..Len(requests) :
              requests[i].m = "startDeployment" => \A j \in 1..(i - 1) : requests[j].ok
        /\ "none" \in Printed => Methods = <<"getLatestSuccessfulBuild">>

\* deploy start without --build-id and --platform: all three requests, in order
C21_Witness ==
    /\ DeployStartRan
    /\ ~argv.id /\ ~argv.opt
    /\ Methods = <<"getLatestSuccessfulBuild", "getGame", "startDeployment">>
    /\ printed = <<"ok">>

\* this step runs `auth login`
LoginStep == pc = "start" /\ handler' = [cmd |-> "auth", sub |-> "login"]

\* C22: a step that runs `auth login` sends one validation request; when it
\* succeeds, the token it carried and the base URL it went to are stored as
\* auth.token and auth.baseUrl, in memory and in the file; when it fails, the
\* config is as loaded, the file is as it was and the process has exited
\* with code 1.
C22_LoginPersists ==
    [][ LoginStep =>
          /\ Len(requests') = 1
          /\ requests'[1].m = "validateToken"
          /\ IF requests'[1].ok
             THEN /\ get(Heap', Dotted(S_auth, S_token)).v = requests'[1].bearer
                  /\ get(Heap', Dotted(S_auth, S_baseUrl)).v = StrV(wire'.url)
                  /\ file' = Stringify(config')
             ELSE /\ config' = Parse(file)
                  /\ file' = file
                  /\ pc' = "exited"
                  /\ exitCode' = 1 ]_vars

\* a login whose validation failed, on an empty config
C22_Witness ==
    /\ LoginRan
    /\ Len(requests) = 1 /\ ~requests[1].ok
    /\ pc = "exited" /\ exitCode = 1
    /\ file = EmptyTree /\ config = EmptyTree

-----------------------------------------------------------------------------
(* Following a log: followLogs with the server's log and status            *)

\* the characters of a log
LogChars == {"x", "y"}

\* String.prototype.slice(start) for 0 <= start
slice(s, start) == IF start >= Len(s) THEN <<>> ELSE SubSeq(s, start + 1, Len(s))

\* the status the server reports for a stage of a build or a deployment
statusText(svc, stage) ==
    CASE stage = "running" -> IF svc = "build" THEN "building" ELSE "deploying"
      [] stage = "done"    -> IF svc = "build" THEN "success" ELSE "deployed"
      [] OTHER -> stage

\* the status pollLogs goes on polling for
RunningText(svc) == IF svc = "build" THEN "building" ELSE "deploying"

\* the stages the server takes a build or deployment through
NextStage(stage) ==
    CASE stage = "queued" -> {"running"}
      [] stage = "running" -> {"done", "failed"}
      [] OTHER -> {}

\* a pollLogs that takes the length of the chunk it wrote for lastLogLength:
\* the variant C23 is checked against
writeNewLogsChunkLength(fetched, last, written) ==
    LET newLogs == slice(fetched, last)
    IN IF newLogs # <<>>
       THEN [chunks |-> Append(written, newLogs), lastLogLength |-> Len(newLogs)]
       ELSE [chunks |-> written, lastLogLength |-> last]

\* pollLogs after getLogs:
\*   const newLogs = logs.slice(lastLogLength);
\*   if (newLogs) { process.stdout.write(newLogs); lastLogLength = logs.length; }
writeNewLogs(fetched, last, written) ==
    LET newLogs == slice(fetched, last)
    IN IF newLogs # <<>>
       THEN [chunks |-> Append(written, newLogs), lastLogLength |-> Len(fetched)]
       ELSE [chunks |-> written, lastLogLength |-> last]

\* pollLogs after getBuild / getDeployment: build.status === 'building'
goesOn(svc, text) == text = RunningText(svc)

\* the command lines that follow a log
FollowInvocations ==
    { [cmd |-> "build", sub |-> "logs", id |-> TRUE, opt |-> TRUE],
      [cmd |-> "deploy", sub |-> "logs", id |-> TRUE, opt |-> TRUE] }

\* the server appends a character to the log while the work is not over
ServerAppend(c) ==
    /\ Len(serverLog) < MaxLog
    /\ status \in {"queued", "running"}
    /\ serverLog' = Append(serverLog, c)
    /\ UNCHANGED <<cfgVars, cliVars, loopVars, procs, saved, customFile, options, asked, wire,
                   status, logs, lastLogLength, chunks, awaiting, seen>>

\* the server takes the build or deployment to its next stage
ServerAdvance(stage) ==
    /\ stage \in NextStage(status)
    /\ status' = stage
    /\ UNCHANGED <<cfgVars, cliVars, loopVars, procs, saved, customFile, options, asked, wire,
                   serverLog, logs, lastLogLength, chunks, awaiting, seen>>

\* `gamebuild build logs <id> --follow` / `gamebuild deploy logs <id> --follow`
\* past the auth gate: followLogs prints, sets lastLogLength to 0 and calls
\* pollLogs, which sends getLogs and awaits the answer
FollowStart(inv) ==
    /\ pc = "start"
    /\ \E h \in {Dispatch(inv)} :
          /\ Gate(Classes(inv)[h.cmd][h.sub], inv, Loaded, marker) = ""
          /\ handler' = h
    /\ argv' = inv
    /\ SetHeap(Loaded)
    /\ pc' = "alive"
    /\ printed' = Append(printed, "following")
    /\ lastLogLength' = 0
    /\ awaiting' = "getLogs"
    /\ UNCHANGED <<file, lastOp, out, nOps, marker, exitCode, requests, thrown, failure,
                   timer, watching, ticks, loopVars, procs, saved, customFile, options,
                   asked, wire, serverLog, status, logs, chunks, seen>>

\* the answer to getLogs arrives with the server's log of that moment: the
\* new part is written, then getBuild / getDeployment is sent; a failed
\* request ends the loop in pollLogs' catch
LogsArrive(ok) ==
    /\ pc = "alive"
    /\ awaiting = "getLogs"
    /\ IF ok
       THEN \E w \in {writeNewLogs(serverLog, lastLogLength, chunks)} :
               /\ logs' = serverLog
               /\ chunks' = w.chunks
               /\ lastLogLength' = w.lastLogLength
               /\ awaiting' = "getStatus"
               /\ UNCHANGED <<pc, printed>>
       ELSE /\ awaiting' = "none"
            /\ printed' = Append(printed, "loopError")
            /\ pc' = "returned"
            /\ UNCHANGED <<logs, chunks, lastLogLength>>
    /\ UNCHANGED <<cfgVars, marker, argv, handler, exitCode, requests, thrown, failure,
                   timer, watching, ticks, loopVars, procs, saved, customFile, options,
                   asked, wire, serverLog, status, seen>>

\* the answer to getBuild / getDeployment arrives with the server's status of
\* that moment: the next poll is scheduled, or the loop ends
StatusArrive(ok) ==
    /\ pc = "alive"
    /\ awaiting = "getStatus"
    /\ awaiting' = "none"
    /\ IF ok
       THEN \E text \in {statusText(argv.cmd, status)} :
               /\ seen' = text
               /\ IF goesOn(argv.cmd, text)
                  THEN /\ timer' = Timer("pollLogs", argv.cmd,
                                         IF argv.cmd = "build" THEN BuildPollMs ELSE DeployPollMs)
                       /\ UNCHANGED <<pc, printed>>
                  ELSE /\ timer' = NoTimer
                       /\ printed' = Append(printed, "finished")
                       /\ pc' = "returned"
       ELSE /\ printed' = Append(printed, "loopError")
            /\ pc' = "returned"
            /\ UNCHANGED <<timer, seen>>
    /\ UNCHANGED <<cfgVars, marker, argv, handler, exitCode, requests, thrown, failure,
                   watching, ticks, loopVars, procs, saved, customFile, options,
                   asked, wire, serverLog, status, logs, lastLogLength, chunks>>

\* the timer fires: pollLogs runs again and sends getLogs
PollAgain ==
    /\ pc = "alive"
    /\ awaiting = "none"
    /\ timer # NoTimer
    /\ timer' = NoTimer
    /\ awaiting' = "getLogs"
    /\ UNCHANGED <<cfgVars, marker, argv, handler, pc, exitCode, requests, printed, thrown,
                   failure, watching, ticks, loopVars, procs, saved, customFile, options,
                   asked, wire, serverLog, status, logs, lastLogLength, chunks, seen>>

InitFollow == InitCli /\ file = Tree1 /\ marker = OldMarker

NextFollow ==
    \/ \E c \in LogChars : ServerAppend(c)
    \/ \E stage \in {"running", "done", "failed"} : ServerAdvance(stage)
    \/ \E inv \in FollowInvocations : FollowStart(inv)
    \/ \E ok \in BOOLEAN : LogsArrive(ok)
    \/ \E ok \in BOOLEAN : StatusArrive(ok)
    \/ PollAgain
    \/ Sigint

SpecFollow == InitFollow /\ [][NextFollow]_vars

\* the text written so far
RECURSIVE Concat(_)
Concat(cs) == IF cs = <<>> THEN <<>> ELSE Head(cs) \o Concat(Tail(cs))

\* C23: while a log is followed, the chunks written so far, joined, are the
\* first lastLogLength characters of the log fetched last; with the server's
\* log only growing, that is a prefix of the server's log: nothing written
\* twice, skipped or reordered.
C23_WrittenIsPrefix ==
    /\ lastLogLength <= Len(logs)
    /\ Concat(chunks) = SubSeq(logs, 1, lastLogLength)
    /\ IsPrefix(Concat(chunks), serverLog)
    /\ \A i \in 1..Len(chunks) : chunks[i] # <<>>

\* two polls have each written a chunk
C23_Witness ==
    /\ Len(chunks) = 2
    /\ lastLogLength = 3
    /\ Concat(chunks) = logs
    /\ awaiting = "getStatus"

\* this step ends the loop because the status read is not the running one
StopStep == awaiting = "getStatus" /\ awaiting' = "none" /\ "finished" \in {printed'[i] : i \in 1..Len(printed')}

\* C24 as stated: when the loop stops because the build or deployment is no
\* longer running, the text written is the server's whole log of the moment
\* the status was read.
C24_Complete == [][ StopStep => Concat(chunks') = serverLog ]_vars

\* C25 as stated (its safety part): the loop stops, having read a status,
\* only when that status is a final one; it does not stop on 'queued' or on
\* the running status.
C25_StopsOnFinal ==
    (awaiting = "none" /\ timer = NoTimer /\ "finished" \in Printed)
        => seen \in {"success", "deployed", "failed"}

-----------------------------------------------------------------------------
(* Watch mode                                                              *)

\* the build requests of the watch session that await their answer
BuildsInFlight ==
    {k \in 1..Len(polls) : polls[k].cb \in {"startWatchBuild", "rebuild"} /\ polls[k].end = -1}

\* C26 as stated: in watch mode at most one build request awaits its answer:
\* no rebuild starts while the initial build or an earlier rebuild is in flight.
C26_OneBuildInFlight == Cardinality(BuildsInFlight) <= 1

\* `build start --watch` has run past its token and project checks
WatchStarted ==
    /\ handler = [cmd |-> "build", sub |-> "start"]
    /\ argv.opt
    /\ pc # "start"
    /\ printed \notin {<<"login">>, <<"noProject">>}

\* C27: in watch mode, a failure of the initial build leaves no watcher and no
\* timer and ends the process with exit code 1 through the command wrapper;
\* after a failed rebuild, until Ctrl+C, the error is printed, the process is
\* alive, the watchers are installed, and a file change arms the rebuild
\* timer again.
C27_WatchFailures ==
    WatchStarted =>
        /\ (ticks = 0 /\ failure # NoFailure)
              => (printed = <<"error">> /\ pc = "exited" /\ exitCode = 1
                  /\ ~watching /\ timer = NoTimer)
        /\ (ticks > 0 /\ failure # NoFailure)
              => \/ EndedBySigint
                 \/ /\ printed[Len(printed)] = "loopError"
                    /\ pc = "alive" /\ watching /\ exitCode = 0
                    /\ ENABLED (FileChange /\ timer' = Timer("rebuild", "build", DebounceMs))

\* a rebuild has failed and a later file change has armed the timer again
C27_Witness ==
    /\ WatchStarted
    /\ ticks = 1
    /\ printed = <<"watching", "loopError">>
    /\ watching
    /\ pc = "alive"
    /\ timer = Timer("rebuild", "build", DebounceMs)

-----------------------------------------------------------------------------
(* identity create                                                         *)

\* `identity create` has sent its request
IdentityRequested ==
    /\ handler = [cmd |-> "identity", sub |-> "create"]
    /\ \E i \in 1..Len(requests) : requests[i].m = "createIdentity"

\* C28 as stated: the private key of a wallet generated by `identity create`
\* is in no request body.
C28_KeyConfined == IdentityRequested => "privateKey" \notin wire.body

-----------------------------------------------------------------------------
(* Frame of set and delete                                                 *)

\* neither key path is a prefix of the other
Unrelated(k1, k2) == ~IsPrefix(split(k1), split(k2)) /\ ~IsPrefix(split(k2), split(k1))

\* this step is a set(k, v) or a delete(k) on the ConfigService
WriteStep == nOps' = nOps + 1 /\ lastOp'.op \in {"set", "delete"}

\* C29 as stated: set(k, v) and delete(k) leave get(k') unchanged for every
\* key path k' that is no prefix of k and has no prefix k.
C29_Frame ==
    [][ WriteStep =>
          \A k2 \in KeyStrings :
             Unrelated(lastOp'.key, k2) => get(Heap', k2) = get(Heap, k2) ]_vars

-----------------------------------------------------------------------------
(* auth status and the base URL                                            *)

\* the base URL of AuthService's client: the stored one, or the default
ClientBaseUrl ==
    LET stored == get(Heap, Dotted(S_auth, S_baseUrl)).v
    IN IF Truthy(stored) THEN templateText(stored) ELSE DefaultBaseUrl

\* C30 as stated: the token validation of `auth status` goes to the stored
\* auth.baseUrl, or to the default URL when none is stored; so when a token is
\* stored and no request is refused, `auth status` reports 'Authenticated',
\* as the authentication gate lets the other commands proceed.
C30_StatusAgrees ==
    (StatusRan /\ isAuthenticated(Heap)) =>
        /\ wire.url = ClientBaseUrl
        /\ (\A i \in 1..Len(requests) : requests[i].ok) => printed = <<"ok">>

=============================================================================
